---- MODULE Spec2Model ----
(***************************************************************************)
(* A model of the device registry (net.rs), the interrupt subsystem        *)
(* (irq.rs), the ARP cache (arp.rs) and the IP codec (ip.rs) of            *)
(* rust_tcp_ip_stack.                                                      *)
(*                                                                         *)
(* Spec      the registry with every public operation taken as one step    *)
(* SpecLife  devices and listeners: register, run, shutdown, the signals   *)
(*           the listeners take, transmit and isr                          *)
(* SpecIrq   IRQContext::register on an IRQContext of its own              *)
(* SpecARP   the ARP cache                                                 *)
(* SpecConc  transmit and isr as threads that take the registry's locks    *)
(* SpecReg   register as threads, one step per access to the shared state  *)
(* SpecIP    the IP codec (ip.rs) on a bounded set of byte sequences       *)
(* SpecProto register_protocol, input and software_isr on the protocols    *)
(* SpecOrder transmit, isr and software_isr on the Loopback path, recorded *)
(* SpecLock  every operation of the registry as caller threads, and the    *)
(*           listeners, one step per lock taken, under fair scheduling     *)
(***************************************************************************)
EXTENDS Integers, Sequences, FiniteSets

(***************************************************************************)
(* Program constants                                                       *)
(***************************************************************************)
DUMMY_IRQ == 35
LOOPBACK_IRQ == 36
NET_PROTOCOL_IP == 2048
SIGUSR1 == 10
FLAG_UP == 1
U16_MAX == 65535
ARP_CACHE_TIMEOUT_SECONDS == 30
AVAILABLE_IRQ_MIN == 35
AVAILABLE_IRQ_MAX == 64

(***************************************************************************)
(* Bounds of the model                                                     *)
(***************************************************************************)
\* Spec
MaxDevices == 1
MaxProtocols == 1
MaxFrames == 2
MaxListeners == 1
\* SpecLife
MaxLifeDevices == 2
MaxLifeListeners == 2
MaxLifeFrames == 1
\* SpecIrq
MaxIrqEntries == 3
\* SpecProto
MaxProtoProtocols == 2
MaxProtoFrames == 2
\* SpecARP
MaxTime == 2
\* SpecConc: the threads, and the frames pushed by transmit in one behaviour
NumThreads == 2
MaxSent == 2
\* SpecReg: the calls of register in one behaviour
MaxConcRegisters == 2
\* SpecIP: the length of the byte sequences handed to parse
MaxIpLen == 25
\* SpecOrder: the calls in one behaviour
MaxOrderCalls == 5
\* SpecLock: the operations and signals started in one behaviour
MaxLockCalls == 2

(***************************************************************************)
(* Inputs                                                                  *)
(***************************************************************************)
\* A tag other than NET_PROTOCOL_IP (0x0806)
OTHER_PROTOCOL == NET_PROTOCOL_IP + 6
\* An interrupt number no device variant is bound to
OTHER_IRQ == LOOPBACK_IRQ + 1

DeviceTypes == {"Dummy", "Loopback"}
ProtocolTypes == {NET_PROTOCOL_IP, OTHER_PROTOCOL}
Irqs == {DUMMY_IRQ, LOOPBACK_IRQ, OTHER_IRQ}

\* A payload is a String; the code reads its length only. id tells payloads apart.

NoData == [id |-> "", len |-> 0]

\* The frames handed to transmit and input: two payloads that fit and one that is too long
\* under the IP tag, one payload under the other tag
Frames ==
    { [net_protocol_type |-> NET_PROTOCOL_IP, data |-> [id |-> "a", len |-> 1]],
      [net_protocol_type |-> NET_PROTOCOL_IP, data |-> [id |-> "b", len |-> U16_MAX]],
      [net_protocol_type |-> NET_PROTOCOL_IP, data |-> [id |-> "c", len |-> U16_MAX + 1]],
      [net_protocol_type |-> OTHER_PROTOCOL, data |-> [id |-> "a", len |-> 1]] }

VARIABLES
    current_index,    \* NetDeviceContext.current_index
    net_devices,      \* NetDeviceContext.net_devices: Seq of NetDevice
    irq_device_map,   \* NetDeviceContext.irq_device_map: irq -> index
    irq_entries,      \* IRQContext.irq_entries: Seq of irq
    protocols,        \* NetDeviceContext.protocols: Seq of NetProtocol
    listeners,        \* the listener threads spawned by IRQContext::run and still in their loop
    last,             \* the last registry call: its arguments, result and what it did
    cache,            \* ARPContext.cache: protocol address -> ARPCacheEntry
    now,              \* SystemTime::now() in seconds since the epoch
    deleted,          \* the keys deleted from the ARP cache and not inserted since
    arp_last,         \* the last ARP cache call, its arguments and result
    threads,          \* each thread's position in its call and the call's locals
    locks,            \* SpecConc: the RwLock and Mutex guards held: lock, thread, mode
    sent,             \* SpecConc: how often each frame was pushed by a transmit
    given,            \* SpecConc: how often each frame was passed to input by a handler
    ip_data,          \* SpecIP: the bytes handed to IPPacket::parse
    ip_result,        \* SpecIP: what IPPacket::parse returned, or that it panicked
    history,          \* SpecOrder: the calls made so far, each as its record in last
    started           \* SpecLock: the number of operations started so far

netvars == <<current_index, net_devices, irq_device_map, irq_entries, protocols, listeners, last>>
arpvars == <<cache, now, deleted, arp_last>>
concvars == <<threads, locks, sent, given>>
ipvars == <<ip_data, ip_result>>
ordvars == <<history, started>>
vars == <<current_index, net_devices, irq_device_map, irq_entries, protocols, listeners, last,
          cache, now, deleted, arp_last, threads, locks, sent, given, ip_data, ip_result,
          history, started>>

(***************************************************************************)
(* Sequences                                                               *)
(***************************************************************************)
Last(s) == s[Len(s)]
Front(s) == SubSeq(s, 1, Len(s) - 1)

RECURSIVE SumLen(_, _)
\* the number of entries queued in the first n elements of a sequence of records with a queue
SumLen(s, n) == IF n = 0 THEN 0 ELSE Len(s[n].queue) + SumLen(s, n - 1)

(***************************************************************************)
(* NetDevice                                                               *)
(***************************************************************************)
NetDevice_new(index, net_device_type) ==
    [name |-> index, net_device_type |-> net_device_type, flags |-> 0, queue |-> <<>>]

is_up(dev) == (dev.flags % (2 * FLAG_UP)) \div FLAG_UP # 0

state(dev) == IF is_up(dev) THEN "up" ELSE "down"

mtu(dev) == IF dev.net_device_type = "Dummy" THEN U16_MAX ELSE U16_MAX

\* open without the is_up check
NetDevice_open_NoCheck(dev) ==
    [dev |-> [dev EXCEPT !.flags = IF is_up(dev) THEN @ ELSE @ + FLAG_UP], res |-> "ok"]

\* open returns the device and the Result
NetDevice_open(dev) ==
    IF is_up(dev)
    THEN [dev |-> dev, res |-> "already opened"]
    ELSE [dev |-> [dev EXCEPT !.flags = IF is_up(dev) THEN @ ELSE @ + FLAG_UP],
          res |-> "ok"]

NetDevice_close(dev) ==
    IF ~is_up(dev)
    THEN [dev |-> dev, res |-> "not opened"]
    ELSE [dev |-> [dev EXCEPT !.flags = IF is_up(dev) THEN @ - FLAG_UP ELSE @],
          res |-> "ok"]

\* a push that overwrites what is queued
queue_push_Overwrite(queue, entry) == <<entry>>

\* queue.push of the Loopback transmit path
queue_push(queue, entry) == Append(queue, entry)

\* transmit with the length check before the is_up check
NetDevice_transmit_LenFirst(dev, net_protocol_type, data) ==
    IF data.len > mtu(dev)
    THEN [dev |-> dev, res |-> "too long", raised |-> <<>>]
    ELSE IF ~is_up(dev)
    THEN [dev |-> dev, res |-> "not opened", raised |-> <<>>]
    ELSE IF dev.net_device_type = "Dummy"
    THEN [dev |-> dev, res |-> "ok", raised |-> <<DUMMY_IRQ>>]
    ELSE [dev |-> [dev EXCEPT !.queue =
                      queue_push(@, [net_protocol_type |-> net_protocol_type, data |-> data])],
          res |-> "ok", raised |-> <<LOOPBACK_IRQ>>]

\* transmit that pushes on the Loopback queue before it tests the device and the length
NetDevice_transmit_PushFirst(dev, net_protocol_type, data) ==
    LET pushed == IF dev.net_device_type = "Dummy"
                  THEN dev
                  ELSE [dev EXCEPT !.queue =
                          queue_push(@, [net_protocol_type |-> net_protocol_type,
                                         data |-> data])]
    IN IF ~is_up(dev)
       THEN [dev |-> pushed, res |-> "not opened", raised |-> <<>>]
       ELSE IF data.len > mtu(dev)
       THEN [dev |-> pushed, res |-> "too long", raised |-> <<>>]
       ELSE [dev |-> pushed, res |-> "ok", raised |-> <<IF dev.net_device_type = "Dummy" THEN DUMMY_IRQ ELSE LOOPBACK_IRQ>>]

\* transmit returns the device, the Result and the interrupts raised
NetDevice_transmit(dev, net_protocol_type, data) ==
    IF ~is_up(dev)
    THEN [dev |-> dev, res |-> "not opened", raised |-> <<>>]
    ELSE IF data.len > mtu(dev)
    THEN [dev |-> dev, res |-> "too long", raised |-> <<>>]
    ELSE IF dev.net_device_type = "Dummy"
    THEN [dev |-> dev, res |-> "ok", raised |-> <<DUMMY_IRQ>>]
    ELSE [dev |-> [dev EXCEPT !.queue =
                      queue_push(@, [net_protocol_type |-> net_protocol_type, data |-> data])],
          res |-> "ok", raised |-> <<LOOPBACK_IRQ>>]

(***************************************************************************)
(* Protocol dispatch                                                       *)
(***************************************************************************)
\* the position of the first protocol registered for protocol_type, 0 when there is none
FirstProtocol(protos, protocol_type) ==
    IF \E i \in 1..Len(protos) : protos[i].protocol_type = protocol_type
    THEN CHOOSE i \in 1..Len(protos) :
            /\ protos[i].protocol_type = protocol_type
            /\ \A j \in 1..(i - 1) : protos[j].protocol_type # protocol_type
    ELSE 0

\* input without the comparison of the protocol type: the first protocol takes the payload
input_NoCompare(protos, protocol_type, data) ==
    IF protos = <<>>
    THEN [protocols |-> protos, raised |-> <<>>]
    ELSE [protocols |-> [protos EXCEPT ![1].queue = Append(@, data)],
          raised |-> <<SIGUSR1>>]

\* input without the break: every protocol registered for the type takes the payload
input_NoBreak(protos, protocol_type, data) ==
    [protocols |-> [i \in 1..Len(protos) |->
                      IF protos[i].protocol_type = protocol_type
                      THEN [protos[i] EXCEPT !.queue = Append(@, data)]
                      ELSE protos[i]],
     raised |-> [i \in 1..Cardinality({j \in 1..Len(protos) :
                                          protos[j].protocol_type = protocol_type})
                   |-> SIGUSR1]]

\* input returns the protocols and the interrupts raised; its Result is always Ok
input(protos, protocol_type, data) ==
    LET i == FirstProtocol(protos, protocol_type) IN
    IF i = 0
    THEN [protocols |-> protos, raised |-> <<>>]
    ELSE [protocols |-> [protos EXCEPT ![i].queue = Append(@, data)],
          raised |-> <<SIGUSR1>>]

\* the classification software_isr logs for a protocol type
DispatchKind(protocol_type) == IF protocol_type = NET_PROTOCOL_IP THEN "IP" ELSE "unknown"

\* software_isr with if-let in place of while-let: one payload is popped from the queue
DrainQueue_IfLet(protocol_type, queue) ==
    IF queue = <<>>
    THEN <<>>
    ELSE <<[protocol_type |-> protocol_type, data |-> Last(queue),
            kind |-> DispatchKind(protocol_type)]>>

RECURSIVE DrainQueue(_, _)
\* the while-let loop of software_isr on one protocol's queue: pop until empty
DrainQueue(protocol_type, queue) ==
    IF queue = <<>>
    THEN <<>>
    ELSE <<[protocol_type |-> protocol_type, data |-> Last(queue),
            kind |-> DispatchKind(protocol_type)]>>
         \o DrainQueue(protocol_type, Front(queue))

RECURSIVE software_isr_from(_, _)
\* the for loop of software_isr from protocol i on: the payloads in dispatch order
software_isr_from(protos, i) ==
    IF i > Len(protos)
    THEN <<>>
    ELSE DrainQueue(protos[i].protocol_type, protos[i].queue) \o software_isr_from(protos, i + 1)

\* software_isr returns the protocols and the payloads dispatched, in order
software_isr(protos) ==
    [protocols |-> [i \in 1..Len(protos) |-> [protos[i] EXCEPT !.queue = <<>>]],
     dispatched |-> software_isr_from(protos, 1)]

(***************************************************************************)
(* NetDevice::isr                                                          *)
(***************************************************************************)
RECURSIVE isr_loop_Fifo(_, _, _, _)
\* the handler's loop taking the oldest entry of the queue first
isr_loop_Fifo(queue, protos, handed, raised) ==
    IF queue = <<>>
    THEN [queue |-> queue, protocols |-> protos, handed |-> handed, raised |-> raised]
    ELSE LET entry == Head(queue)
             r == input(protos, entry.net_protocol_type, entry.data)
         IN isr_loop_Fifo(Tail(queue), r.protocols, Append(handed, entry), raised \o r.raised)

RECURSIVE isr_loop(_, _, _, _)
\* the while-let loop of the Loopback handler: pop an entry, hand it to input
isr_loop(queue, protos, handed, raised) ==
    IF queue = <<>>
    THEN [queue |-> queue, protocols |-> protos, handed |-> handed, raised |-> raised]
    ELSE LET entry == Last(queue)
             r == input(protos, entry.net_protocol_type, entry.data)
         IN isr_loop(Front(queue), r.protocols, Append(handed, entry), raised \o r.raised)

\* isr with if-let in place of while-let: one entry is popped
NetDevice_isr_IfLet(dev, protos) ==
    IF dev.net_device_type = "Dummy" \/ dev.queue = <<>>
    THEN [dev |-> dev, protocols |-> protos, handed |-> <<>>, raised |-> <<>>, res |-> "ok"]
    ELSE LET entry == Last(dev.queue)
             r == input(protos, entry.net_protocol_type, entry.data)
         IN [dev |-> [dev EXCEPT !.queue = Front(@)], protocols |-> r.protocols,
             handed |-> <<entry>>, raised |-> r.raised, res |-> "ok"]

\* isr returns the device, the protocols, the entries handed to input and the interrupts raised
NetDevice_isr(dev, protos) ==
    IF dev.net_device_type = "Dummy"
    THEN [dev |-> dev, protocols |-> protos, handed |-> <<>>, raised |-> <<>>, res |-> "ok"]
    ELSE LET r == isr_loop(dev.queue, protos, <<>>, <<>>)
         IN [dev |-> [dev EXCEPT !.queue = r.queue], protocols |-> r.protocols,
             handed |-> r.handed, raised |-> r.raised, res |-> "ok"]

(***************************************************************************)
(* The registry, one step per public operation                             *)
(***************************************************************************)
\* frames held in device queues and protocol queues
TotalFrames == SumLen(net_devices, Len(net_devices)) + SumLen(protocols, Len(protocols))

IrqOf(net_device_type) == IF net_device_type = "Dummy" THEN DUMMY_IRQ ELSE LOOPBACK_IRQ

NoCall ==
    [op |-> "new", index |-> 0, irq |-> 0, protocol_type |-> 0, data |-> NoData,
     res |-> "ok", target |-> 0, calls |-> <<>>, raised |-> <<>>, handed |-> <<>>,
     dispatched |-> <<>>]

NetInit ==
    /\ current_index = 0
    /\ net_devices = <<>>
    /\ irq_device_map = <<>>
    /\ irq_entries = <<>>
    /\ protocols = <<>>
    /\ listeners = 0
    /\ last = NoCall

\* HashMap::insert
MapInsert(map, key, value) ==
    [k \in (DOMAIN map) \cup {key} |-> IF k = key THEN value ELSE map[k]]

Register(net_device_type) ==
    /\ LET index == current_index IN
       /\ irq_entries' = Append(irq_entries, IrqOf(net_device_type))
       /\ irq_device_map' = MapInsert(irq_device_map, IrqOf(net_device_type), index)
       /\ net_devices' = Append(net_devices, NetDevice_new(index, net_device_type))
       /\ current_index' = current_index + 1
       /\ last' = [NoCall EXCEPT !.op = "register", !.index = index,
                                 !.irq = IrqOf(net_device_type)]
    /\ UNCHANGED <<protocols, listeners>>

RegisterProtocol(protocol_type) ==
    /\ protocols' = Append(protocols, [protocol_type |-> protocol_type, queue |-> <<>>])
    /\ last' = [NoCall EXCEPT !.op = "register_protocol", !.protocol_type = protocol_type]
    /\ UNCHANGED <<current_index, net_devices, irq_device_map, irq_entries, listeners>>

RECURSIVE run_loop_Continue(_, _, _)
\* run that goes on after a failing open and reports the failure at the end
run_loop_Continue(devs, i, calls) ==
    IF i > Len(devs)
    THEN [net_devices |-> devs, calls |-> calls,
          res |-> IF \E c \in 1..Len(calls) : calls[c].res # "ok"
                  THEN "already opened" ELSE "ok"]
    ELSE LET r == NetDevice_open(devs[i])
             c == Append(calls, [op |-> "open", index |-> i - 1, res |-> r.res])
         IN run_loop_Continue([devs EXCEPT ![i] = r.dev], i + 1, c)

RECURSIVE run_loop(_, _, _)
\* the for loop of run from device i on: open each device, stop at the first Err
run_loop(devs, i, calls) ==
    IF i > Len(devs)
    THEN [net_devices |-> devs, calls |-> calls, res |-> "ok"]
    ELSE LET r == NetDevice_open(devs[i])
             c == Append(calls, [op |-> "open", index |-> i - 1, res |-> r.res])
         IN IF r.res # "ok"
            THEN [net_devices |-> devs, calls |-> c, res |-> r.res]
            ELSE run_loop([devs EXCEPT ![i] = r.dev], i + 1, c)

RECURSIVE shutdown_loop_Reverse(_, _, _)
\* shutdown that closes the devices from the last one registered to the first
shutdown_loop_Reverse(devs, i, calls) ==
    LET k == Len(devs) + 1 - i IN
    IF i > Len(devs)
    THEN [net_devices |-> devs, calls |-> calls, res |-> "ok"]
    ELSE LET r == NetDevice_close(devs[k])
             c == Append(calls, [op |-> "close", index |-> k - 1, res |-> r.res])
         IN IF r.res # "ok"
            THEN [net_devices |-> devs, calls |-> c, res |-> r.res]
            ELSE shutdown_loop_Reverse([devs EXCEPT ![k] = r.dev], i + 1, c)

RECURSIVE shutdown_loop(_, _, _)
\* the for loop of shutdown from device i on: close each device, stop at the first Err
shutdown_loop(devs, i, calls) ==
    IF i > Len(devs)
    THEN [net_devices |-> devs, calls |-> calls, res |-> "ok"]
    ELSE LET r == NetDevice_close(devs[i])
             c == Append(calls, [op |-> "close", index |-> i - 1, res |-> r.res])
         IN IF r.res # "ok"
            THEN [net_devices |-> devs, calls |-> c, res |-> r.res]
            ELSE shutdown_loop([devs EXCEPT ![i] = r.dev], i + 1, c)

\* run: IRQContext::run spawns a listener, then every device is opened
Run ==
    /\ listeners' = listeners + 1
    /\ LET r == run_loop(net_devices, 1, <<>>) IN
       /\ net_devices' = r.net_devices
       /\ last' = [NoCall EXCEPT !.op = "run", !.res = r.res, !.calls = r.calls]
    /\ UNCHANGED <<current_index, irq_device_map, irq_entries, protocols>>

\* shutdown: every device is closed; IRQContext::shutdown does nothing
Shutdown ==
    /\ LET r == shutdown_loop(net_devices, 1, <<>>) IN
       /\ net_devices' = r.net_devices
       /\ last' = [NoCall EXCEPT !.op = "shutdown", !.res = r.res, !.calls = r.calls]
    /\ UNCHANGED <<current_index, irq_device_map, irq_entries, protocols, listeners>>

\* the listener's loop on SIGHUP: every listener leaves its loop
Sighup ==
    /\ listeners > 0
    /\ listeners' = 0
    /\ last' = [NoCall EXCEPT !.op = "sighup"]
    /\ UNCHANGED <<current_index, net_devices, irq_device_map, irq_entries, protocols>>

Transmit(index, net_protocol_type, data) ==
    /\ IF index < Len(net_devices)
       THEN LET r == NetDevice_transmit(net_devices[index + 1], net_protocol_type, data) IN
            /\ net_devices' = [net_devices EXCEPT ![index + 1] = r.dev]
            /\ last' = [NoCall EXCEPT !.op = "transmit", !.index = index,
                                      !.protocol_type = net_protocol_type, !.data = data,
                                      !.res = r.res, !.raised = r.raised]
       ELSE /\ net_devices' = net_devices
            /\ last' = [NoCall EXCEPT !.op = "transmit", !.index = index,
                                      !.protocol_type = net_protocol_type, !.data = data]
    /\ UNCHANGED <<current_index, irq_device_map, irq_entries, protocols, listeners>>

\* the device isr(irq) reaches: position in net_devices, 0 when the lookups miss
IsrTarget(irq) ==
    IF irq \in DOMAIN irq_device_map /\ irq_device_map[irq] < Len(net_devices)
    THEN irq_device_map[irq] + 1
    ELSE 0

Isr(irq) ==
    /\ LET t == IsrTarget(irq) IN
       IF t # 0
       THEN LET r == NetDevice_isr(net_devices[t], protocols) IN
            /\ net_devices' = [net_devices EXCEPT ![t] = r.dev]
            /\ protocols' = r.protocols
            /\ last' = [NoCall EXCEPT !.op = "isr", !.irq = irq, !.res = r.res, !.target = t,
                                      !.handed = r.handed, !.raised = r.raised]
       ELSE /\ UNCHANGED <<net_devices, protocols>>
            /\ last' = [NoCall EXCEPT !.op = "isr", !.irq = irq]
    /\ UNCHANGED <<current_index, irq_device_map, irq_entries, listeners>>

SoftwareIsr ==
    /\ LET r == software_isr(protocols) IN
       /\ protocols' = r.protocols
       /\ last' = [NoCall EXCEPT !.op = "software_isr", !.dispatched = r.dispatched]
    /\ UNCHANGED <<current_index, net_devices, irq_device_map, irq_entries, listeners>>

Input(protocol_type, data) ==
    /\ LET r == input(protocols, protocol_type, data) IN
       /\ protocols' = r.protocols
       /\ last' = [NoCall EXCEPT !.op = "input", !.protocol_type = protocol_type,
                                 !.data = data, !.raised = r.raised]
    /\ UNCHANGED <<current_index, net_devices, irq_device_map, irq_entries, listeners>>

(***************************************************************************)
(* IRQContext::register, called on an IRQContext of its own                *)
(***************************************************************************)
\* interrupt numbers below, in and above AVAILABLE_IRQ_MIN..AVAILABLE_IRQ_MAX
IrqInputs ==
    {AVAILABLE_IRQ_MIN - 1, AVAILABLE_IRQ_MIN, LOOPBACK_IRQ, AVAILABLE_IRQ_MAX - 1,
     AVAILABLE_IRQ_MAX + 1}

\* register pushes the entry and returns Ok
IRQContext_register(entries, irq) == [irq_entries |-> Append(entries, irq), res |-> "ok"]

IrqRegister(irq) ==
    /\ LET r == IRQContext_register(irq_entries, irq) IN
       /\ irq_entries' = r.irq_entries
       /\ last' = [NoCall EXCEPT !.op = "irq_register", !.irq = irq, !.res = r.res]
    /\ UNCHANGED <<current_index, net_devices, irq_device_map, protocols, listeners>>

(***************************************************************************)
(* The listener thread of IRQContext::run                                  *)
(***************************************************************************)
\* the signals a listener waits for besides SIGHUP: AVAILABLE_IRQ_MIN..AVAILABLE_IRQ_MAX,
\* the end excluded
ListenedIrqs == {irq \in Irqs : AVAILABLE_IRQ_MIN <= irq /\ irq < AVAILABLE_IRQ_MAX}

\* a listener that goes on after SIGHUP: it takes signals whatever it received before
Listening_AfterBreak == TRUE

\* a listener is in its loop
Listening == listeners > 0

RECURSIVE listener_loop(_, _, _, _, _, _)
\* the for loop over irq_entries from entry i on: for every entry whose irq is the signal,
\* NetDeviceContext::isr(signal) is called
listener_loop(i, signal, devs, protos, calls, handed) ==
    IF i > Len(irq_entries)
    THEN [net_devices |-> devs, protocols |-> protos, calls |-> calls, handed |-> handed]
    ELSE IF irq_entries[i] # signal
    THEN listener_loop(i + 1, signal, devs, protos, calls, handed)
    ELSE LET t == IsrTarget(signal) IN
         IF t = 0
         THEN listener_loop(i + 1, signal, devs, protos,
                            Append(calls, [op |-> "isr", index |-> t - 1, res |-> "ok"]), handed)
         ELSE LET r == NetDevice_isr(devs[t], protos)
              IN listener_loop(i + 1, signal, [devs EXCEPT ![t] = r.dev], r.protocols,
                               Append(calls, [op |-> "isr", index |-> t - 1, res |-> r.res]),
                               handed \o r.handed)

\* a listener takes a signal other than SIGHUP from signals.forever()
ListenerSignal(signal) ==
    /\ Listening
    /\ LET r == listener_loop(1, signal, net_devices, protocols, <<>>, <<>>) IN
       /\ net_devices' = r.net_devices
       /\ protocols' = r.protocols
       /\ last' = [NoCall EXCEPT !.op = "signal", !.irq = signal, !.calls = r.calls,
                                 !.handed = r.handed]
    /\ UNCHANGED <<current_index, irq_device_map, irq_entries, listeners>>

(***************************************************************************)
(* Threads: transmit and isr, one step per lock taken                      *)
(***************************************************************************)
Threads == 1..NumThreads

IdleThread ==
    [pc |-> "idle", index |-> 0, net_protocol_type |-> 0, data |-> NoData, irq |-> 0,
     net_device_type |-> "", target |-> 0, entry |-> [net_protocol_type |-> 0, data |-> NoData],
     cursor |-> 0, res |-> "ok"]

\* a lock is named by its kind and its position in its list
IrqEntriesLock == <<"irq_entries", 0>>
NetDevicesLock == <<"net_devices", 0>>
IrqDeviceMapLock == <<"irq_device_map", 0>>
ProtocolsLock == <<"protocols", 0>>
DeviceLock(i) == <<"device", i>>
QueueLock(i) == <<"queue", i>>
ProtocolQueueLock(j) == <<"protocol_queue", j>>

\* RwLock::read blocks while a writer holds the lock
CanRead(l) == \A h \in locks : h.lock = l => h.mode = "r"
\* RwLock::write and Mutex::lock block while anyone holds the lock
CanWrite(l) == \A h \in locks : h.lock # l
Guard(t, l, mode) == [lock |-> l, thread |-> t, mode |-> mode]
\* the guards of a thread are dropped
Dropped(t) == {h \in locks : h.thread # t}
\* isr returns with its guards kept
IsrDropped_Keep(t) == locks
\* the guards of isr are dropped: a listener keeps the read guard of its loop over irq_entries
IsrDropped(t) == {h \in locks : h.thread # t \/ h.lock = IrqEntriesLock}
\* isr returns to its caller, or to the listener's loop over irq_entries
IsrReturned(t) ==
    IF t \in Threads
    THEN IdleThread
    ELSE [IdleThread EXCEPT !.pc = "lis_entry", !.irq = threads[t].irq,
                            !.cursor = threads[t].cursor + 1]

ConcInit ==
    /\ threads = [t \in Threads |-> IdleThread]
    /\ locks = {}
    /\ sent = [f \in Frames |-> 0]
    /\ given = [f \in Frames |-> 0]

RECURSIVE BagSum(_, _)
BagSum(b, S) == IF S = {} THEN 0 ELSE LET x == CHOOSE x \in S : TRUE IN b[x] + BagSum(b, S \ {x})

InTransmit == {t \in Threads : threads[t].pc \in {"tx_devices", "tx_device", "tx_body", "tx_return"}}

\* NetDeviceContext::transmit is called
TxCall(t, index, net_protocol_type, data) ==
    /\ threads[t].pc = "idle"
    /\ threads' = [threads EXCEPT ![t] = [IdleThread EXCEPT !.pc = "tx_devices", !.index = index,
                                             !.net_protocol_type = net_protocol_type,
                                             !.data = data]]
    /\ UNCHANGED <<netvars, locks, sent, given>>

\* self.net_devices.read()?.get(index)
TxLockDevices(t) ==
    /\ threads[t].pc = "tx_devices"
    /\ CanRead(NetDevicesLock)
    /\ IF threads[t].index < Len(net_devices)
       THEN /\ locks' = locks \cup {Guard(t, NetDevicesLock, "r")}
            /\ threads' = [threads EXCEPT ![t].pc = "tx_device",
                                          ![t].target = threads[t].index + 1]
       ELSE /\ locks' = locks
            /\ threads' = [threads EXCEPT ![t] = IdleThread]
    /\ UNCHANGED <<netvars, sent, given>>

\* net_device.write()
TxLockDevice(t) ==
    /\ threads[t].pc = "tx_device"
    /\ CanWrite(DeviceLock(threads[t].target))
    /\ locks' = locks \cup {Guard(t, DeviceLock(threads[t].target), "w")}
    /\ threads' = [threads EXCEPT ![t].pc = "tx_body"]
    /\ UNCHANGED <<netvars, sent, given>>

\* NetDevice::transmit under the device's write guard; the queue's Mutex is taken for the push
TxBody(t) ==
    /\ threads[t].pc = "tx_body"
    /\ LET i == threads[t].target
           f == [net_protocol_type |-> threads[t].net_protocol_type, data |-> threads[t].data]
           r == NetDevice_transmit(net_devices[i], f.net_protocol_type, f.data)
       IN /\ (net_devices[i].net_device_type = "Loopback") => CanWrite(QueueLock(i))
          /\ net_devices' = [net_devices EXCEPT ![i] = r.dev]
          /\ sent' = IF r.res = "ok" /\ net_devices[i].net_device_type = "Loopback"
                     THEN [sent EXCEPT ![f] = @ + 1]
                     ELSE sent
          /\ threads' = [threads EXCEPT ![t].pc = "tx_return", ![t].res = r.res]
    /\ UNCHANGED <<current_index, irq_device_map, irq_entries, protocols, listeners, last,
                   locks, given>>

\* the guards of transmit are dropped, transmit returns
TxReturn(t) ==
    /\ threads[t].pc = "tx_return"
    /\ locks' = Dropped(t)
    /\ threads' = [threads EXCEPT ![t] = IdleThread]
    /\ UNCHANGED <<netvars, sent, given>>

\* NetDeviceContext::isr is called, by a listener or directly
IsrCall(t, irq) ==
    /\ threads[t].pc = "idle"
    /\ threads' = [threads EXCEPT ![t] = [IdleThread EXCEPT !.pc = "isr_map", !.irq = irq]]
    /\ UNCHANGED <<netvars, locks, sent, given>>

\* self.irq_device_map.read()?.get(&irq)
IsrLockMap(t) ==
    /\ threads[t].pc = "isr_map"
    /\ CanRead(IrqDeviceMapLock)
    /\ IF threads[t].irq \in DOMAIN irq_device_map
       THEN /\ locks' = locks \cup {Guard(t, IrqDeviceMapLock, "r")}
            /\ threads' = [threads EXCEPT ![t].pc = "isr_devices",
                                          ![t].index = irq_device_map[threads[t].irq]]
       ELSE /\ locks' = locks
            /\ threads' = [threads EXCEPT ![t] = IsrReturned(t)]
    /\ UNCHANGED <<netvars, sent, given>>

\* self.net_devices.read()?.get(*net_device_index)
IsrLockDevices(t) ==
    /\ threads[t].pc = "isr_devices"
    /\ CanRead(NetDevicesLock)
    /\ IF threads[t].index < Len(net_devices)
       THEN /\ locks' = locks \cup {Guard(t, NetDevicesLock, "r")}
            /\ threads' = [threads EXCEPT ![t].pc = "isr_device",
                                          ![t].target = threads[t].index + 1]
       ELSE /\ locks' = IsrDropped(t)
            /\ threads' = [threads EXCEPT ![t] = IsrReturned(t)]
    /\ UNCHANGED <<netvars, sent, given>>

\* net_device.write()
IsrLockDevice(t) ==
    /\ threads[t].pc = "isr_device"
    /\ CanWrite(DeviceLock(threads[t].target))
    /\ locks' = locks \cup {Guard(t, DeviceLock(threads[t].target), "w")}
    /\ threads' = [threads EXCEPT ![t].pc = "isr_queue"]
    /\ UNCHANGED <<netvars, sent, given>>

\* NetDevice::isr: a Dummy device returns, a Loopback device locks its queue
IsrLockQueue(t) ==
    /\ threads[t].pc = "isr_queue"
    /\ IF net_devices[threads[t].target].net_device_type = "Dummy"
       THEN /\ locks' = locks
            /\ threads' = [threads EXCEPT ![t].pc = "isr_return", ![t].res = "ok"]
       ELSE /\ CanWrite(QueueLock(threads[t].target))
            /\ locks' = locks \cup {Guard(t, QueueLock(threads[t].target), "w")}
            /\ threads' = [threads EXCEPT ![t].pc = "isr_pop"]
    /\ UNCHANGED <<netvars, sent, given>>

\* while let Some(entry) = queue.pop()
IsrPop(t) ==
    /\ threads[t].pc = "isr_pop"
    /\ LET i == threads[t].target
           q == net_devices[i].queue
       IN IF q = <<>>
          THEN /\ net_devices' = net_devices
               /\ threads' = [threads EXCEPT ![t].pc = "isr_return", ![t].res = "ok"]
          ELSE /\ net_devices' = [net_devices EXCEPT ![i].queue = Front(q)]
               /\ threads' = [threads EXCEPT ![t].pc = "isr_input", ![t].entry = Last(q)]
    /\ UNCHANGED <<current_index, irq_device_map, irq_entries, protocols, listeners, last,
                   locks, sent, given>>

\* self.net_device_context.input(entry.net_protocol_type, entry.data): self.protocols.read()
IsrInputLock(t) ==
    /\ threads[t].pc = "isr_input"
    /\ CanRead(ProtocolsLock)
    /\ locks' = locks \cup {Guard(t, ProtocolsLock, "r")}
    /\ threads' = [threads EXCEPT ![t].pc = "isr_push"]
    /\ UNCHANGED <<netvars, sent, given>>

\* input under the read guard of the protocols: the queue of the matching protocol is locked
\* for the push, then both guards are dropped and input returns
IsrInput(t) ==
    /\ threads[t].pc = "isr_push"
    /\ LET e == threads[t].entry
           j == FirstProtocol(protocols, e.net_protocol_type)
           r == input(protocols, e.net_protocol_type, e.data)
       IN /\ j # 0 => CanWrite(ProtocolQueueLock(j))
          /\ protocols' = r.protocols
          /\ given' = [given EXCEPT ![e] = @ + 1]
    /\ locks' = locks \ {Guard(t, ProtocolsLock, "r")}
    /\ threads' = [threads EXCEPT ![t].pc = "isr_pop", ![t].entry = IdleThread.entry]
    /\ UNCHANGED <<current_index, net_devices, irq_device_map, irq_entries, listeners, last,
                   sent>>

\* the guards of isr are dropped, isr returns
IsrReturn(t) ==
    /\ threads[t].pc = "isr_return"
    /\ locks' = IsrDropped(t)
    /\ threads' = [threads EXCEPT ![t] = IsrReturned(t)]
    /\ UNCHANGED <<netvars, sent, given>>


(***************************************************************************)
(* Threads: register, one step per access to the shared state              *)
(***************************************************************************)
InRegister == {t \in Threads : threads[t].pc \in {"reg_irq", "reg_map", "reg_push", "reg_add"}}

\* register is called: let index = self.current_index.load(SeqCst)
RegLoad(t, net_device_type) ==
    /\ threads[t].pc = "idle"
    /\ threads' = [threads EXCEPT ![t] = [IdleThread EXCEPT !.pc = "reg_irq",
                                             !.index = current_index,
                                             !.net_device_type = net_device_type,
                                             !.irq = IrqOf(net_device_type)]]
    /\ UNCHANGED <<netvars, locks, sent, given>>

\* self.irq_context.read()?.register(irq)
RegIrq(t) ==
    /\ threads[t].pc = "reg_irq"
    /\ CanWrite(IrqEntriesLock)
    /\ irq_entries' = IRQContext_register(irq_entries, threads[t].irq).irq_entries
    /\ threads' = [threads EXCEPT ![t].pc = "reg_map"]
    /\ UNCHANGED <<current_index, net_devices, irq_device_map, protocols, listeners, last,
                   locks, sent, given>>

\* self.irq_device_map.write()?.insert(irq, index)
RegMap(t) ==
    /\ threads[t].pc = "reg_map"
    /\ CanWrite(IrqDeviceMapLock)
    /\ irq_device_map' = MapInsert(irq_device_map, threads[t].irq, threads[t].index)
    /\ threads' = [threads EXCEPT ![t].pc = "reg_push"]
    /\ UNCHANGED <<current_index, net_devices, irq_entries, protocols, listeners, last,
                   locks, sent, given>>

\* self.net_devices.write()?.push(RwLock::new(NetDevice::new(name, ..)))
RegPush(t) ==
    /\ threads[t].pc = "reg_push"
    /\ CanWrite(NetDevicesLock)
    /\ net_devices' = Append(net_devices,
                             NetDevice_new(threads[t].index, threads[t].net_device_type))
    /\ threads' = [threads EXCEPT ![t].pc = "reg_add"]
    /\ UNCHANGED <<current_index, irq_device_map, irq_entries, protocols, listeners, last,
                   locks, sent, given>>

\* self.current_index.fetch_add(1, SeqCst); register returns
RegAdd(t) ==
    /\ threads[t].pc = "reg_add"
    /\ current_index' = current_index + 1
    /\ threads' = [threads EXCEPT ![t] = IdleThread]
    /\ UNCHANGED <<net_devices, irq_device_map, irq_entries, protocols, listeners, last,
                   locks, sent, given>>

(***************************************************************************)
(* Threads: register_protocol, run, shutdown, software_isr, the listeners  *)
(* irq_context is written in new only, and an irq entry's own RwLock is    *)
(* never written: their read guards never block and are left out           *)
(***************************************************************************)
\* the listener of the running registry and one more for each call of run
LockListeners == (NumThreads + 1)..(NumThreads + 1 + MaxLockCalls)
LockThreads == Threads \cup LockListeners
Unspawned == [IdleThread EXCEPT !.pc = "unspawned"]
ListeningThread == [IdleThread EXCEPT !.pc = "listening"]
Spawned == {l \in LockListeners : threads[l].pc # "unspawned"}

\* register_protocol is called
RpCall(t, protocol_type) ==
    /\ threads[t].pc = "idle"
    /\ threads' = [threads EXCEPT ![t] = [IdleThread EXCEPT !.pc = "rp_push",
                                             !.net_protocol_type = protocol_type]]
    /\ UNCHANGED <<netvars, locks, sent, given>>

\* self.protocols.write()?.push(NetProtocol { .. }); register_protocol returns
RpPush(t) ==
    /\ threads[t].pc = "rp_push"
    /\ CanWrite(ProtocolsLock)
    /\ protocols' = Append(protocols, [protocol_type |-> threads[t].net_protocol_type,
                                       queue |-> <<>>])
    /\ threads' = [threads EXCEPT ![t] = IdleThread]
    /\ UNCHANGED <<current_index, net_devices, irq_device_map, irq_entries, listeners, last,
                   locks, sent, given>>

\* run is called
RunCall(t) ==
    /\ threads[t].pc = "idle"
    /\ threads' = [threads EXCEPT ![t] = [IdleThread EXCEPT !.pc = "run_spawn"]]
    /\ UNCHANGED <<netvars, locks, sent, given>>

\* self.irq_context.read()?.run(): thread::spawn of one more listener
RunSpawn(t) ==
    /\ threads[t].pc = "run_spawn"
    /\ \E l \in LockListeners \ Spawned :
          /\ \A k \in LockListeners \ Spawned : l <= k
          /\ threads' = [threads EXCEPT ![t].pc = "run_devices", ![l] = ListeningThread]
    /\ listeners' = listeners + 1
    /\ UNCHANGED <<current_index, net_devices, irq_device_map, irq_entries, protocols, last,
                   locks, sent, given>>

\* let net_devices = self.net_devices.read()
RunLockDevices(t) ==
    /\ threads[t].pc = "run_devices"
    /\ CanRead(NetDevicesLock)
    /\ locks' = locks \cup {Guard(t, NetDevicesLock, "r")}
    /\ threads' = [threads EXCEPT ![t].pc = "run_open", ![t].cursor = 1]
    /\ UNCHANGED <<netvars, sent, given>>

\* for net_device in &*net_devices { net_device.write()?.open()?; }: one device per step, the
\* write guard is dropped at the end of the statement; run returns at the first Err and at
\* the end of the list
RunOpen(t) ==
    /\ threads[t].pc = "run_open"
    /\ LET i == threads[t].cursor
       IN IF i > Len(net_devices)
          THEN /\ net_devices' = net_devices
               /\ locks' = Dropped(t)
               /\ threads' = [threads EXCEPT ![t] = IdleThread]
          ELSE /\ CanWrite(DeviceLock(i))
               /\ LET r == NetDevice_open(net_devices[i])
                  IN IF r.res = "ok"
                     THEN /\ net_devices' = [net_devices EXCEPT ![i] = r.dev]
                          /\ locks' = locks
                          /\ threads' = [threads EXCEPT ![t].cursor = i + 1]
                     ELSE /\ net_devices' = net_devices
                          /\ locks' = Dropped(t)
                          /\ threads' = [threads EXCEPT ![t] = IdleThread]
    /\ UNCHANGED <<current_index, irq_device_map, irq_entries, protocols, listeners, last,
                   sent, given>>

\* shutdown is called
ShutCall(t) ==
    /\ threads[t].pc = "idle"
    /\ threads' = [threads EXCEPT ![t] = [IdleThread EXCEPT !.pc = "shut_devices"]]
    /\ UNCHANGED <<netvars, locks, sent, given>>

\* let net_devices = self.net_devices.read()
ShutLockDevices(t) ==
    /\ threads[t].pc = "shut_devices"
    /\ CanRead(NetDevicesLock)
    /\ locks' = locks \cup {Guard(t, NetDevicesLock, "r")}
    /\ threads' = [threads EXCEPT ![t].pc = "shut_close", ![t].cursor = 1]
    /\ UNCHANGED <<netvars, sent, given>>

\* for net_device in &*net_devices { net_device.write()?.close()?; }, then
\* self.irq_context.read()?.shutdown(), which does nothing
ShutClose(t) ==
    /\ threads[t].pc = "shut_close"
    /\ LET i == threads[t].cursor
       IN IF i > Len(net_devices)
          THEN /\ net_devices' = net_devices
               /\ locks' = Dropped(t)
               /\ threads' = [threads EXCEPT ![t] = IdleThread]
          ELSE /\ CanWrite(DeviceLock(i))
               /\ LET r == NetDevice_close(net_devices[i])
                  IN IF r.res = "ok"
                     THEN /\ net_devices' = [net_devices EXCEPT ![i] = r.dev]
                          /\ locks' = locks
                          /\ threads' = [threads EXCEPT ![t].cursor = i + 1]
                     ELSE /\ net_devices' = net_devices
                          /\ locks' = Dropped(t)
                          /\ threads' = [threads EXCEPT ![t] = IdleThread]
    /\ UNCHANGED <<current_index, irq_device_map, irq_entries, protocols, listeners, last,
                   sent, given>>

\* software_isr is called
SiCall(t) ==
    /\ threads[t].pc = "idle"
    /\ threads' = [threads EXCEPT ![t] = [IdleThread EXCEPT !.pc = "si_protocols"]]
    /\ UNCHANGED <<netvars, locks, sent, given>>

\* let protocols = self.protocols.read()
SiLockProtocols(t) ==
    /\ threads[t].pc = "si_protocols"
    /\ CanRead(ProtocolsLock)
    /\ locks' = locks \cup {Guard(t, ProtocolsLock, "r")}
    /\ threads' = [threads EXCEPT ![t].pc = "si_queue", ![t].cursor = 1]
    /\ UNCHANGED <<netvars, sent, given>>

\* for protocol in protocols.iter() { while let Some(data) = protocol.queue.lock()?.pop():
\* the queue is locked for each pop; software_isr returns at the end of the list
SiLockQueue(t) ==
    /\ threads[t].pc = "si_queue"
    /\ LET j == threads[t].cursor
       IN IF j > Len(protocols)
          THEN /\ locks' = Dropped(t)
               /\ threads' = [threads EXCEPT ![t] = IdleThread]
          ELSE /\ CanWrite(ProtocolQueueLock(j))
               /\ locks' = locks \cup {Guard(t, ProtocolQueueLock(j), "w")}
               /\ threads' = [threads EXCEPT ![t].pc = "si_pop"]
    /\ UNCHANGED <<netvars, sent, given>>

\* pop under the queue's guard, which is dropped after the body of the while let; None ends
\* the loop over this queue
SiPop(t) ==
    /\ threads[t].pc = "si_pop"
    /\ LET j == threads[t].cursor
           q == protocols[j].queue
       IN /\ locks' = locks \ {Guard(t, ProtocolQueueLock(j), "w")}
          /\ IF q = <<>>
             THEN /\ protocols' = protocols
                  /\ threads' = [threads EXCEPT ![t].pc = "si_queue", ![t].cursor = j + 1]
             ELSE /\ protocols' = [protocols EXCEPT ![j].queue = Front(q)]
                  /\ threads' = [threads EXCEPT ![t].pc = "si_queue"]
    /\ UNCHANGED <<current_index, net_devices, irq_device_map, irq_entries, listeners, last,
                   sent, given>>

\* for signal in signals.forever(): a signal other than SIGHUP, irq_entries_clone.read()
ListenerTake(l, signal) ==
    /\ threads[l].pc = "listening"
    /\ CanRead(IrqEntriesLock)
    /\ locks' = locks \cup {Guard(l, IrqEntriesLock, "r")}
    /\ threads' = [threads EXCEPT ![l].pc = "lis_entry", ![l].irq = signal, ![l].cursor = 1]
    /\ UNCHANGED <<netvars, sent, given>>

\* for irq_entry in ...iter(): an entry of the signal's number calls isr, under the read
\* guard of irq_entries, which is dropped at the end of the list
ListenerEntry(l) ==
    /\ threads[l].pc = "lis_entry"
    /\ LET i == threads[l].cursor
       IN IF i > Len(irq_entries)
          THEN /\ locks' = Dropped(l)
               /\ threads' = [threads EXCEPT ![l] = ListeningThread]
          ELSE /\ locks' = locks
               /\ threads' = IF irq_entries[i] = threads[l].irq
                              THEN [threads EXCEPT ![l].pc = "isr_map"]
                              ELSE [threads EXCEPT ![l].cursor = i + 1]
    /\ UNCHANGED <<netvars, sent, given>>

(***************************************************************************)
(* The ARP cache                                                           *)
(***************************************************************************)
ZeroHardwareAddress == <<0, 0, 0, 0, 0, 0>>
HardwareAddresses == { <<2, 0, 0, 0, 0, 1>>, <<2, 0, 0, 0, 0, 2>> }
ProtocolAddresses == { <<10, 0, 0, 1>>, <<10, 0, 0, 2>> }

None == <<>>
Some(x) == <<x>>

NoArpCall ==
    [op |-> "new", hardware_address |-> ZeroHardwareAddress, protocol_address |-> <<0, 0, 0, 0>>,
     res |-> "ok", found |-> None, before |-> "absent"]

ArpInit ==
    /\ cache = <<>>
    /\ now = 0
    /\ deleted = {}
    /\ arp_last = NoArpCall

lookup(c, protocol_address) ==
    IF protocol_address \in DOMAIN c /\ c[protocol_address].state # "Free"
    THEN Some(c[protocol_address].hardware_address)
    ELSE None

\* insert that keeps an entry already in the map
insert_IfAbsent(c, hardware_address, protocol_address, t) ==
    IF protocol_address \in DOMAIN c
    THEN c
    ELSE MapInsert(c, protocol_address,
                   [hardware_address |-> hardware_address,
                    protocol_address |-> protocol_address,
                    state |-> "Resolved",
                    timeout |-> t + ARP_CACHE_TIMEOUT_SECONDS])

insert(c, hardware_address, protocol_address, t) ==
    MapInsert(c, protocol_address,
              [hardware_address |-> hardware_address,
               protocol_address |-> protocol_address,
               state |-> "Resolved",
               timeout |-> t + ARP_CACHE_TIMEOUT_SECONDS])

\* update that creates the entry when the key is absent
update_Upsert(c, hardware_address, protocol_address, t) ==
    MapInsert(c, protocol_address,
              [hardware_address |-> hardware_address,
               protocol_address |-> protocol_address,
               state |-> "Resolved",
               timeout |-> t + ARP_CACHE_TIMEOUT_SECONDS])

update(c, hardware_address, protocol_address, t) ==
    IF protocol_address \in DOMAIN c
    THEN [c EXCEPT ![protocol_address] =
             [@ EXCEPT !.hardware_address = hardware_address,
                       !.state = "Resolved",
                       !.timeout = t + ARP_CACHE_TIMEOUT_SECONDS]]
    ELSE c

delete(c, protocol_address) ==
    IF protocol_address \in DOMAIN c
    THEN [c EXCEPT ![protocol_address] =
             [@ EXCEPT !.hardware_address = ZeroHardwareAddress,
                       !.state = "Free",
                       !.timeout = 0]]
    ELSE c

\* the state of the slot of protocol_address, "absent" when the map has no such key
SlotState(c, protocol_address) ==
    IF protocol_address \in DOMAIN c THEN c[protocol_address].state ELSE "absent"

ArpLookup(protocol_address) ==
    /\ arp_last' = [NoArpCall EXCEPT !.op = "lookup", !.before = SlotState(cache, protocol_address),
                                     !.protocol_address = protocol_address,
                                     !.found = lookup(cache, protocol_address)]
    /\ UNCHANGED <<cache, now, deleted>>

ArpInsert(hardware_address, protocol_address) ==
    /\ cache' = insert(cache, hardware_address, protocol_address, now)
    /\ deleted' = deleted \ {protocol_address}
    /\ arp_last' = [NoArpCall EXCEPT !.op = "insert", !.before = SlotState(cache, protocol_address),
                                     !.hardware_address = hardware_address,
                                     !.protocol_address = protocol_address]
    /\ UNCHANGED now

ArpUpdate(hardware_address, protocol_address) ==
    /\ cache' = update(cache, hardware_address, protocol_address, now)
    /\ arp_last' = [NoArpCall EXCEPT !.op = "update", !.before = SlotState(cache, protocol_address),
                                     !.hardware_address = hardware_address,
                                     !.protocol_address = protocol_address]
    /\ UNCHANGED <<now, deleted>>

ArpDelete(protocol_address) ==
    /\ cache' = delete(cache, protocol_address)
    /\ deleted' = deleted \cup {protocol_address}
    /\ arp_last' = [NoArpCall EXCEPT !.op = "delete", !.before = SlotState(cache, protocol_address),
                                     !.protocol_address = protocol_address]
    /\ UNCHANGED now

\* the system clock advances
Tick ==
    /\ now < MaxTime
    /\ now' = now + 1
    /\ arp_last' = [NoArpCall EXCEPT !.op = "tick"]
    /\ UNCHANGED <<cache, deleted>>

(***************************************************************************)
(* The IP codec                                                            *)
(***************************************************************************)
\* data[a..b] of a slice: a and b count from 0, b is excluded
Slice(data, a, b) == SubSeq(data, a + 1, b)

\* data[i], i counts from 0
Byte(data, i) == data[i + 1]

\* u16::from_be_bytes
from_be_bytes(bytes) == bytes[1] * 256 + bytes[2]

\* u32::from_be_bytes: the value is hi * 65536 + lo, kept as its 16-bit halves <<hi, lo>>
u32_from_be_bytes(bytes) ==
    <<from_be_bytes(SubSeq(bytes, 1, 2)), from_be_bytes(SubSeq(bytes, 3, 4))>>

\* x >> n and the lowest bit of x
Shr(x, n) == x \div (2 ^ n)
Bit(x) == x % 2 = 1

NotParsed == [res |-> "none"]
IpPanic == [res |-> "panic"]
IpErr(msg) == [res |-> msg]

\* IPHeader::parse: an index or a slice outside the input panics
IPHeader_parse(data) ==
    IF Len(data) < 1
    THEN IpPanic
    ELSE IF Shr(Byte(data, 0), 4) \notin {4, 6}
    THEN IpErr("Invalid IP version")
    ELSE IF Len(data) < 10
    THEN IpPanic
    ELSE IF Byte(data, 9) \notin {1, 6, 17}
    THEN IpErr("Invalid IP protocol")
    ELSE IF Len(data) < 20
    THEN IpPanic
    ELSE LET ihl == Byte(data, 0) % 16 IN
         IF 20 > ihl * 4 \/ ihl * 4 > Len(data)
         THEN IpPanic
         ELSE [res |-> "ok",
               header |->
                 [version |-> IF Shr(Byte(data, 0), 4) = 4 THEN "IPv4" ELSE "IPv6",
                  ihl |-> ihl,
                  precedence |-> Shr(Byte(data, 1), 5),
                  delay |-> Bit(Shr(Byte(data, 1), 4)),
                  throughput |-> Bit(Shr(Byte(data, 1), 3)),
                  reliability |-> Bit(Shr(Byte(data, 1), 2)),
                  total_length |-> from_be_bytes(<<Byte(data, 2), Byte(data, 3)>>),
                  identification |-> from_be_bytes(<<Byte(data, 4), Byte(data, 5)>>),
                  df |-> Bit(Shr(Byte(data, 6), 6)),
                  mf |-> Bit(Shr(Byte(data, 6), 5)),
                  fragment_offset |-> from_be_bytes(<<Byte(data, 6) % 32, Byte(data, 7)>>),
                  ttl |-> Byte(data, 8),
                  protocol |-> CASE Byte(data, 9) = 1 -> "ICMP"
                                 [] Byte(data, 9) = 6 -> "TCP"
                                 [] Byte(data, 9) = 17 -> "UDP",
                  header_checksum |-> from_be_bytes(<<Byte(data, 10), Byte(data, 11)>>),
                  source_ip_address |-> u32_from_be_bytes(Slice(data, 12, 16)),
                  destination_ip_address |-> u32_from_be_bytes(Slice(data, 16, 20)),
                  options |-> Slice(data, 20, ihl * 4)]]

\* data_offset that returns the header length in words
data_offset_Words(header) == header.ihl

\* (self.ihl << 2) as usize, the shift in u8
data_offset(header) == (header.ihl * 4) % 256

\* IPPacket::parse
IPPacket_parse(data) ==
    LET h == IPHeader_parse(data) IN
    IF h.res # "ok"
    THEN h
    ELSE IF data_offset(h.header) > Len(data)
    THEN IpPanic
    ELSE [res |-> "ok", header |-> h.header,
          data |-> Slice(data, data_offset(h.header), Len(data))]

\* the header 45 00 00 14 00 01 40 00 40 06 00 00 c0 a8 01 01 c0 a8 01 02
ExampleHeader ==
    <<69, 0, 0, 20, 0, 1, 64, 0, 64, 6, 0, 0, 192, 168, 1, 1, 192, 168, 1, 2>>

\* first bytes: versions 4, 6, 5 and 0, header lengths 0, 4, 5, 6 and 15 words
FirstBytes == {69, 70, 101, 79, 68, 64, 85, 5}
\* protocol bytes: ICMP, TCP, UDP and two others
ProtocolBytes == {1, 6, 17, 0, 2}

\* n bytes: first the given first byte, the given protocol byte at offset 9, elsewhere a byte
\* that tells the offsets apart
Packet(first, protocol, n) ==
    [i \in 1..n |-> IF i = 1 THEN first ELSE IF i = 10 THEN protocol ELSE 100 + i]

IpInputs ==
    {Packet(b, p, n) : b \in FirstBytes, p \in ProtocolBytes, n \in 0..MaxIpLen}
        \cup {ExampleHeader}

IpInit == ip_data = <<>> /\ ip_result = NotParsed

\* IPPacket::parse is called on the input
IPParse ==
    /\ ip_result = NotParsed
    /\ ip_result' = IPPacket_parse(ip_data)
    /\ UNCHANGED ip_data

(***************************************************************************)
(* Specifications                                                          *)
(***************************************************************************)
OrdInit == history = <<>> /\ started = 0

Init == NetInit /\ ArpInit /\ ConcInit /\ IpInit /\ OrdInit

\* the registry: at most MaxDevices devices and MaxProtocols protocols are registered, at most
\* MaxFrames frames are queued, run is called at most MaxListeners times
Next ==
    \/ \E t \in DeviceTypes :
          Len(net_devices) < MaxDevices /\ Register(t) /\ UNCHANGED <<arpvars, concvars, ipvars, ordvars>>
    \/ \E p \in ProtocolTypes :
          Len(protocols) < MaxProtocols /\ RegisterProtocol(p) /\ UNCHANGED <<arpvars, concvars, ipvars, ordvars>>
    \/ listeners < MaxListeners /\ Run /\ UNCHANGED <<arpvars, concvars, ipvars, ordvars>>
    \/ Shutdown /\ UNCHANGED <<arpvars, concvars, ipvars, ordvars>>
    \/ \E i \in 0..Len(net_devices), f \in Frames :
          TotalFrames < MaxFrames /\ Transmit(i, f.net_protocol_type, f.data) /\ UNCHANGED <<arpvars, concvars, ipvars, ordvars>>
    \/ \E irq \in Irqs : Isr(irq) /\ UNCHANGED <<arpvars, concvars, ipvars, ordvars>>
    \/ SoftwareIsr /\ UNCHANGED <<arpvars, concvars, ipvars, ordvars>>
    \/ \E f \in Frames :
          TotalFrames < MaxFrames /\ Input(f.net_protocol_type, f.data) /\ UNCHANGED <<arpvars, concvars, ipvars, ordvars>>

Spec == Init /\ [][Next]_vars

NextARP ==
    \/ \E k \in ProtocolAddresses : ArpLookup(k) /\ UNCHANGED <<netvars, concvars, ipvars, ordvars>>
    \/ \E h \in HardwareAddresses, k \in ProtocolAddresses : ArpInsert(h, k) /\ UNCHANGED <<netvars, concvars, ipvars, ordvars>>
    \/ \E h \in HardwareAddresses, k \in ProtocolAddresses : ArpUpdate(h, k) /\ UNCHANGED <<netvars, concvars, ipvars, ordvars>>
    \/ \E k \in ProtocolAddresses : ArpDelete(k) /\ UNCHANGED <<netvars, concvars, ipvars, ordvars>>
    \/ Tick /\ UNCHANGED <<netvars, concvars, ipvars, ordvars>>

SpecARP == Init /\ [][NextARP]_vars

\* the frames transmitted in SpecLife
LifeFrames == {f \in Frames : f.net_protocol_type = NET_PROTOCOL_IP /\ f.data.id # "b"}

\* the lifecycle of the devices and of the listeners: register, run, shutdown, the signals
\* the listeners take, transmit and direct calls of isr; at most MaxLifeDevices devices,
\* MaxLifeListeners listeners at a time and MaxLifeFrames queued frames
NextLife ==
    \/ \E t \in DeviceTypes :
          Len(net_devices) < MaxLifeDevices /\ Register(t) /\ UNCHANGED <<arpvars, concvars, ipvars, ordvars>>
    \/ listeners < MaxLifeListeners /\ Run /\ UNCHANGED <<arpvars, concvars, ipvars, ordvars>>
    \/ Shutdown /\ UNCHANGED <<arpvars, concvars, ipvars, ordvars>>
    \/ Sighup /\ UNCHANGED <<arpvars, concvars, ipvars, ordvars>>
    \/ \E signal \in ListenedIrqs : ListenerSignal(signal) /\ UNCHANGED <<arpvars, concvars, ipvars, ordvars>>
    \/ \E i \in 0..(Len(net_devices) - 1), f \in LifeFrames :
          /\ TotalFrames < MaxLifeFrames
          /\ Transmit(i, f.net_protocol_type, f.data)
          /\ UNCHANGED <<arpvars, concvars, ipvars, ordvars>>
    \/ \E irq \in Irqs : Isr(irq) /\ UNCHANGED <<arpvars, concvars, ipvars, ordvars>>

SpecLife == Init /\ [][NextLife]_vars

\* an IRQContext of its own: at most MaxIrqEntries calls of register
NextIrq ==
    \E irq \in IrqInputs :
        Len(irq_entries) < MaxIrqEntries /\ IrqRegister(irq) /\ UNCHANGED <<arpvars, concvars, ipvars, ordvars>>

SpecIrq == Init /\ [][NextIrq]_vars

\* the protocols alone: at most MaxProtoProtocols calls of register_protocol, at most
\* MaxProtoFrames payloads queued
NextProto ==
    \/ \E p \in ProtocolTypes :
          /\ Len(protocols) < MaxProtoProtocols
          /\ RegisterProtocol(p)
          /\ UNCHANGED <<arpvars, concvars, ipvars, ordvars>>
    \/ \E f \in Frames :
          /\ TotalFrames < MaxProtoFrames
          /\ Input(f.net_protocol_type, f.data)
          /\ UNCHANGED <<arpvars, concvars, ipvars, ordvars>>
    \/ SoftwareIsr /\ UNCHANGED <<arpvars, concvars, ipvars, ordvars>>

SpecProto == Init /\ [][NextProto]_vars

\* the registry after register(Loopback), register_protocol(NET_PROTOCOL_IP) and run
Running ==
    /\ current_index = 1
    /\ net_devices = <<[NetDevice_new(0, "Loopback") EXCEPT !.flags = FLAG_UP]>>
    /\ irq_device_map = MapInsert(<<>>, LOOPBACK_IRQ, 0)
    /\ irq_entries = <<LOOPBACK_IRQ>>
    /\ protocols = <<[protocol_type |-> NET_PROTOCOL_IP, queue |-> <<>>]>>
    /\ listeners = 1

InitConc == Running /\ last = NoCall /\ ArpInit /\ ConcInit /\ IpInit /\ OrdInit

\* NumThreads threads call transmit and isr on the running registry; the transmits push at
\* most MaxSent frames
NextConc ==
    \/ \E t \in Threads, i \in 0..Len(net_devices), f \in Frames :
          /\ BagSum(sent, Frames) + Cardinality(InTransmit) < MaxSent
          /\ TxCall(t, i, f.net_protocol_type, f.data)
          /\ UNCHANGED <<arpvars, ipvars, ordvars>>
    \/ \E t \in Threads : TxLockDevices(t) /\ UNCHANGED <<arpvars, ipvars, ordvars>>
    \/ \E t \in Threads : TxLockDevice(t) /\ UNCHANGED <<arpvars, ipvars, ordvars>>
    \/ \E t \in Threads : TxBody(t) /\ UNCHANGED <<arpvars, ipvars, ordvars>>
    \/ \E t \in Threads : TxReturn(t) /\ UNCHANGED <<arpvars, ipvars, ordvars>>
    \/ \E t \in Threads, irq \in Irqs : IsrCall(t, irq) /\ UNCHANGED <<arpvars, ipvars, ordvars>>
    \/ \E t \in Threads : IsrLockMap(t) /\ UNCHANGED <<arpvars, ipvars, ordvars>>
    \/ \E t \in Threads : IsrLockDevices(t) /\ UNCHANGED <<arpvars, ipvars, ordvars>>
    \/ \E t \in Threads : IsrLockDevice(t) /\ UNCHANGED <<arpvars, ipvars, ordvars>>
    \/ \E t \in Threads : IsrLockQueue(t) /\ UNCHANGED <<arpvars, ipvars, ordvars>>
    \/ \E t \in Threads : IsrPop(t) /\ UNCHANGED <<arpvars, ipvars, ordvars>>
    \/ \E t \in Threads : IsrInputLock(t) /\ UNCHANGED <<arpvars, ipvars, ordvars>>
    \/ \E t \in Threads : IsrInput(t) /\ UNCHANGED <<arpvars, ipvars, ordvars>>
    \/ \E t \in Threads : IsrReturn(t) /\ UNCHANGED <<arpvars, ipvars, ordvars>>

SpecConc == InitConc /\ [][NextConc]_vars

\* NumThreads threads call register on the new registry, MaxConcRegisters calls in all
NextReg ==
    \/ \E t \in Threads, d \in DeviceTypes :
          /\ Len(net_devices) + Cardinality({u \in InRegister : threads[u].pc # "reg_add"})
                < MaxConcRegisters
          /\ RegLoad(t, d)
          /\ UNCHANGED <<arpvars, ipvars, ordvars>>
    \/ \E t \in Threads : RegIrq(t) /\ UNCHANGED <<arpvars, ipvars, ordvars>>
    \/ \E t \in Threads : RegMap(t) /\ UNCHANGED <<arpvars, ipvars, ordvars>>
    \/ \E t \in Threads : RegPush(t) /\ UNCHANGED <<arpvars, ipvars, ordvars>>
    \/ \E t \in Threads : RegAdd(t) /\ UNCHANGED <<arpvars, ipvars, ordvars>>

SpecReg == Init /\ [][NextReg]_vars

\* the IP codec on every input of IpInputs
InitIP ==
    NetInit /\ ArpInit /\ ConcInit /\ OrdInit /\ ip_data \in IpInputs /\ ip_result = NotParsed

NextIP == IPParse /\ UNCHANGED <<netvars, arpvars, concvars, ordvars>>

SpecIP == InitIP /\ [][NextIP]_vars

\* the Loopback path on the running registry: MaxOrderCalls calls of transmit on device 0,
\* of isr(LOOPBACK_IRQ) and of software_isr, each call recorded
NextOrder ==
    \/ \E f \in Frames :
          /\ Len(history) < MaxOrderCalls
          /\ Transmit(0, f.net_protocol_type, f.data)
          /\ history' = Append(history, last') /\ UNCHANGED started
          /\ UNCHANGED <<arpvars, concvars, ipvars>>
    \/ /\ Len(history) < MaxOrderCalls
       /\ Isr(LOOPBACK_IRQ)
       /\ history' = Append(history, last') /\ UNCHANGED started
       /\ UNCHANGED <<arpvars, concvars, ipvars>>
    \/ /\ Len(history) < MaxOrderCalls
       /\ SoftwareIsr
       /\ history' = Append(history, last') /\ UNCHANGED started
       /\ UNCHANGED <<arpvars, concvars, ipvars>>

SpecOrder == InitConc /\ [][NextOrder]_vars

\* the running registry used by NumThreads caller threads and by its listeners: MaxLockCalls
\* operations of the registry and signals taken by a listener, one step per lock taken; the
\* Loopback queue is empty or holds the frame of one earlier transmit
LockFrames == {f \in Frames : f.data.id = "a"}
LockQueues == {<<>>} \cup {<<f>> : f \in {g \in LockFrames : g.net_protocol_type = NET_PROTOCOL_IP}}

InitLock ==
    /\ current_index = 1
    /\ \E q \in LockQueues :
          /\ net_devices = <<[NetDevice_new(0, "Loopback") EXCEPT !.flags = FLAG_UP,
                                                                 !.queue = q]>>
          /\ sent = [f \in Frames |-> IF q = <<f>> THEN 1 ELSE 0]
    /\ irq_device_map = MapInsert(<<>>, LOOPBACK_IRQ, 0)
    /\ irq_entries = <<LOOPBACK_IRQ>>
    /\ protocols = <<[protocol_type |-> NET_PROTOCOL_IP, queue |-> <<>>]>>
    /\ listeners = 1
    /\ last = NoCall /\ ArpInit /\ IpInit /\ OrdInit
    /\ threads = [t \in LockThreads |-> IF t \in Threads THEN IdleThread
                                        ELSE IF t = NumThreads + 1 THEN ListeningThread
                                        ELSE Unspawned]
    /\ locks = {}
    /\ given = [f \in Frames |-> 0]

\* the idle caller threads are interchangeable: a call is made by the first of them
FirstIdle(t) == \A u \in Threads : threads[u].pc = "idle" => t <= u
\* so are the listeners waiting for a signal
FirstListening(l) == \A k \in LockListeners : threads[k].pc = "listening" => l <= k
\* the signals of the two device types
LockSignals == {irq \in ListenedIrqs : \E net_device_type \in DeviceTypes : irq = IrqOf(net_device_type)}

NextLock ==
    \/ \E t \in Threads, i \in 0..Len(net_devices), f \in LockFrames :
          /\ started < MaxLockCalls /\ FirstIdle(t)
          /\ TxCall(t, i, f.net_protocol_type, f.data)
          /\ started' = started + 1
          /\ UNCHANGED <<arpvars, ipvars, history>>
    \/ \E t \in Threads : TxLockDevices(t) /\ UNCHANGED <<arpvars, ipvars, ordvars>>
    \/ \E t \in Threads : TxLockDevice(t) /\ UNCHANGED <<arpvars, ipvars, ordvars>>
    \/ \E t \in Threads : TxBody(t) /\ UNCHANGED <<arpvars, ipvars, ordvars>>
    \/ \E t \in Threads : TxReturn(t) /\ UNCHANGED <<arpvars, ipvars, ordvars>>
    \/ \E t \in Threads, net_device_type \in DeviceTypes :
          /\ started < MaxLockCalls /\ FirstIdle(t)
          /\ RegLoad(t, net_device_type)
          /\ started' = started + 1
          /\ UNCHANGED <<arpvars, ipvars, history>>
    \/ \E t \in Threads : RegIrq(t) /\ UNCHANGED <<arpvars, ipvars, ordvars>>
    \/ \E t \in Threads : RegMap(t) /\ UNCHANGED <<arpvars, ipvars, ordvars>>
    \/ \E t \in Threads : RegPush(t) /\ UNCHANGED <<arpvars, ipvars, ordvars>>
    \/ \E t \in Threads : RegAdd(t) /\ UNCHANGED <<arpvars, ipvars, ordvars>>
    \/ \E t \in Threads, protocol_type \in {NET_PROTOCOL_IP} :
          /\ started < MaxLockCalls /\ FirstIdle(t)
          /\ RpCall(t, protocol_type)
          /\ started' = started + 1
          /\ UNCHANGED <<arpvars, ipvars, history>>
    \/ \E t \in Threads : RpPush(t) /\ UNCHANGED <<arpvars, ipvars, ordvars>>
    \/ \E t \in Threads :
          /\ started < MaxLockCalls /\ FirstIdle(t)
          /\ RunCall(t)
          /\ started' = started + 1
          /\ UNCHANGED <<arpvars, ipvars, history>>
    \/ \E t \in Threads : RunSpawn(t) /\ UNCHANGED <<arpvars, ipvars, ordvars>>
    \/ \E t \in Threads : RunLockDevices(t) /\ UNCHANGED <<arpvars, ipvars, ordvars>>
    \/ \E t \in Threads : RunOpen(t) /\ UNCHANGED <<arpvars, ipvars, ordvars>>
    \/ \E t \in Threads :
          /\ started < MaxLockCalls /\ FirstIdle(t)
          /\ ShutCall(t)
          /\ started' = started + 1
          /\ UNCHANGED <<arpvars, ipvars, history>>
    \/ \E t \in Threads : ShutLockDevices(t) /\ UNCHANGED <<arpvars, ipvars, ordvars>>
    \/ \E t \in Threads : ShutClose(t) /\ UNCHANGED <<arpvars, ipvars, ordvars>>
    \/ \E t \in Threads :
          /\ started < MaxLockCalls /\ FirstIdle(t)
          /\ SiCall(t)
          /\ started' = started + 1
          /\ UNCHANGED <<arpvars, ipvars, history>>
    \/ \E t \in Threads : SiLockProtocols(t) /\ UNCHANGED <<arpvars, ipvars, ordvars>>
    \/ \E t \in Threads : SiLockQueue(t) /\ UNCHANGED <<arpvars, ipvars, ordvars>>
    \/ \E t \in Threads : SiPop(t) /\ UNCHANGED <<arpvars, ipvars, ordvars>>
    \/ \E l \in LockListeners, signal \in LockSignals :
          /\ started < MaxLockCalls /\ FirstListening(l)
          /\ ListenerTake(l, signal)
          /\ started' = started + 1
          /\ UNCHANGED <<arpvars, ipvars, history>>
    \/ \E l \in LockListeners : ListenerEntry(l) /\ UNCHANGED <<arpvars, ipvars, ordvars>>
    \/ \E l \in LockListeners : IsrLockMap(l) /\ UNCHANGED <<arpvars, ipvars, ordvars>>
    \/ \E l \in LockListeners : IsrLockDevices(l) /\ UNCHANGED <<arpvars, ipvars, ordvars>>
    \/ \E l \in LockListeners : IsrLockDevice(l) /\ UNCHANGED <<arpvars, ipvars, ordvars>>
    \/ \E l \in LockListeners : IsrLockQueue(l) /\ UNCHANGED <<arpvars, ipvars, ordvars>>
    \/ \E l \in LockListeners : IsrPop(l) /\ UNCHANGED <<arpvars, ipvars, ordvars>>
    \/ \E l \in LockListeners : IsrInputLock(l) /\ UNCHANGED <<arpvars, ipvars, ordvars>>
    \/ \E l \in LockListeners : IsrInput(l) /\ UNCHANGED <<arpvars, ipvars, ordvars>>
    \/ \E l \in LockListeners : IsrReturn(l) /\ UNCHANGED <<arpvars, ipvars, ordvars>>

\* the steps of thread t inside an operation it has started
LockStep(t) ==
    /\ \/ TxLockDevices(t) \/ TxLockDevice(t) \/ TxBody(t) \/ TxReturn(t)
       \/ RegIrq(t) \/ RegMap(t) \/ RegPush(t) \/ RegAdd(t)
       \/ RpPush(t)
       \/ RunSpawn(t) \/ RunLockDevices(t) \/ RunOpen(t)
       \/ ShutLockDevices(t) \/ ShutClose(t)
       \/ SiLockProtocols(t) \/ SiLockQueue(t) \/ SiPop(t)
       \/ ListenerEntry(t)
       \/ IsrLockMap(t) \/ IsrLockDevices(t) \/ IsrLockDevice(t) \/ IsrLockQueue(t)
       \/ IsrPop(t) \/ IsrInputLock(t) \/ IsrInput(t) \/ IsrReturn(t)
    /\ UNCHANGED <<arpvars, ipvars, ordvars>>

\* every thread is scheduled: a thread that can take its next step takes it
SpecLock == InitLock /\ [][NextLock]_vars /\ \A t \in LockThreads : WF_vars(LockStep(t))

(***************************************************************************)
(* Helpers of the properties                                               *)
(***************************************************************************)
Rev(q) == [i \in 1..Len(q) |-> q[Len(q) + 1 - i]]

\* the payloads of the entries of a device queue that carry protocol_type, in queue order
DataOf(q, protocol_type) ==
    LET sel == SelectSeq(q, LAMBDA e : e.net_protocol_type = protocol_type)
    IN [i \in 1..Len(sel) |-> sel[i].data]

\* protocol j is the first one registered for its type
IsFirstFor(protos, j) ==
    \A i \in 1..(j - 1) : protos[i].protocol_type # protos[j].protocol_type

Registered(protos, protocol_type) ==
    \E j \in 1..Len(protos) : protos[j].protocol_type = protocol_type

RECURSIVE FifoOrder(_, _)
\* the payloads queued from protocol i on, each queue from its oldest entry to its newest
FifoOrder(protos, i) ==
    IF i > Len(protos) THEN <<>> ELSE protos[i].queue \o FifoOrder(protos, i + 1)

(***************************************************************************)
(* The claims                                                              *)
(***************************************************************************)

\* C1: for a registered device and a payload of length L, the registry's transmit returns Ok
\* iff the device is up and L <= MTU; a down device gives "not opened" whatever L is, an up
\* device with L > MTU gives "too long".
C1_TransmitResult ==
    [][ (last'.op = "transmit" /\ last'.index < Len(net_devices)) =>
            LET dev == net_devices[last'.index + 1]
                L == last'.data.len
            IN /\ (last'.res = "ok") <=> (is_up(dev) /\ L <= U16_MAX)
               /\ ~is_up(dev) => last'.res = "not opened"
               /\ (is_up(dev) /\ L > U16_MAX) => last'.res = "too long" ]_vars

\* C1 witness: a transmit of a payload longer than the MTU on an up device was refused
C1_Witness ==
    /\ last.op = "transmit"
    /\ last.index < Len(net_devices)
    /\ is_up(net_devices[last.index + 1])
    /\ last.data.len > U16_MAX
    /\ last.res = "too long"

\* C2: every open that run makes on an up device fails with "already opened" and changes
\* nothing, every open on a down device sets it up; every close that shutdown makes on a
\* down device fails with "not opened" and changes nothing, every close on an up device sets
\* it down; the devices the call did not reach are unchanged.
C2_OpenClose ==
    [][ (last'.op \in {"run", "shutdown"}) =>
            /\ Len(net_devices') = Len(net_devices)
            /\ \A c \in 1..Len(last'.calls) :
                  LET call == last'.calls[c]
                      old == net_devices[call.index + 1]
                      new == net_devices'[call.index + 1]
                  IN /\ call.op = (IF last'.op = "run" THEN "open" ELSE "close")
                     /\ (call.op = "open" /\ is_up(old)) =>
                            (call.res = "already opened" /\ new = old)
                     /\ (call.op = "open" /\ ~is_up(old)) =>
                            (call.res = "ok" /\ is_up(new) /\ new = [old EXCEPT !.flags = new.flags])
                     /\ (call.op = "close" /\ ~is_up(old)) =>
                            (call.res = "not opened" /\ new = old)
                     /\ (call.op = "close" /\ is_up(old)) =>
                            (call.res = "ok" /\ ~is_up(new) /\ new = [old EXCEPT !.flags = new.flags])
            /\ \A i \in 1..Len(net_devices) :
                  (\A c \in 1..Len(last'.calls) : last'.calls[c].index # i - 1) =>
                      net_devices'[i] = net_devices[i] ]_vars

\* C2 witness: run met a device that was already up, after it had opened none, and a second
\* device is registered
C2_Witness ==
    /\ last.op = "run"
    /\ last.res = "already opened"
    /\ Len(net_devices) = 2
    /\ is_up(net_devices[1])
    /\ ~is_up(net_devices[2])

\* C3: the interrupt handler of an up Loopback device leaves the device's queue empty and
\* hands every queued frame to exactly one protocol queue, the first one registered for the
\* frame's tag, once: that queue grows by the frame's payload, no other queue changes (one
\* queued frame: exactly one entry added). A software_isr leaves every protocol queue empty.
C3_LoopbackPath ==
    [][ /\ (/\ last'.op = "isr"
            /\ last'.target # 0
            /\ net_devices[last'.target].net_device_type = "Loopback"
            /\ is_up(net_devices[last'.target])) =>
               LET q == net_devices[last'.target].queue IN
               /\ net_devices'[last'.target].queue = <<>>
               /\ Len(last'.handed) = Len(q)
               /\ Len(protocols') = Len(protocols)
               /\ \A j \in 1..Len(protocols) :
                     protocols'[j].queue =
                        IF IsFirstFor(protocols, j)
                        THEN protocols[j].queue \o DataOf(Rev(q), protocols[j].protocol_type)
                        ELSE protocols[j].queue
        /\ last'.op = "software_isr" =>
               \A j \in 1..Len(protocols') : protocols'[j].queue = <<>> ]_vars

\* C3 witness: the handler handed the one frame that was queued to the protocol registered
\* for its tag
C3_Witness ==
    /\ last.op = "isr"
    /\ last.target # 0
    /\ is_up(net_devices[last.target])
    /\ net_devices[last.target].queue = <<>>
    /\ Len(last.handed) = 1
    /\ \E j \in 1..Len(protocols) :
          /\ protocols[j].protocol_type = last.handed[1].net_protocol_type
          /\ protocols[j].queue = <<last.handed[1].data>>

\* the number of entries of q that equal x
Count(q, x) == Cardinality({i \in 1..Len(q) : q[i] = x})

\* the handlers that have popped frame f and not yet passed it to input
Popped(f) == {t \in Threads : threads[t].pc \in {"isr_input", "isr_push"} /\ threads[t].entry = f}

\* C4: under every interleaving of the transmit calls of several threads on the up Loopback
\* device with its interrupt handler, every frame (tag, payload) that a transmit pushed is
\* still in the device queue or was taken out by a handler once: it is in the hands of a
\* running handler or was passed to input, as often as it was pushed; and input appended
\* to the queue of the registered protocol each payload it was given, once.
C4_NoDataLoss ==
    /\ \A f \in Frames :
          sent[f] = Count(net_devices[1].queue, f) + Cardinality(Popped(f)) + given[f]
    /\ \A f \in Frames :
          f.net_protocol_type = NET_PROTOCOL_IP =>
              Count(protocols[1].queue, f.data) = given[f]

\* two frames were pushed by the transmits of two threads that met at the device's lock, and
\* a handler has taken one of them while the other is still queued
C4_Witness ==
    /\ BagSum(sent, Frames) = 2
    /\ Len(net_devices[1].queue) = 1
    /\ BagSum(given, Frames) = 1
    /\ \E t \in Threads : threads[t].pc = "tx_return" /\ threads[t].res = "ok"
    /\ \E t \in Threads : threads[t].pc = "isr_device"

\* C5: after delete(X), lookup(X) is None until an insert for X: no update, delete or lookup
\* resolves X again.
C5_DeleteUntilInsert ==
    \A k \in deleted : lookup(cache, k) = None

\* C6: insert(hw = A, proto = X) succeeds in any state of the slot of X; afterwards
\* lookup(X) = Some(A), the entry is Resolved with expiry = now + 30 s, and the entries of the
\* other keys are unchanged.
C6_InsertThenLookup ==
    [][ (arp_last'.op = "insert") =>
            LET k == arp_last'.protocol_address
                h == arp_last'.hardware_address
            IN /\ arp_last'.res = "ok"
               /\ lookup(cache', k) = Some(h)
               /\ DOMAIN cache' = (DOMAIN cache) \cup {k}
               /\ cache'[k] = [hardware_address |-> h, protocol_address |-> k,
                               state |-> "Resolved",
                               timeout |-> now + ARP_CACHE_TIMEOUT_SECONDS]
               /\ \A j \in (DOMAIN cache) \ {k} : cache'[j] = cache[j] ]_vars

\* C6 witness: an insert on a soft-deleted slot, at a time after the epoch, another key present
C6_Witness ==
    /\ arp_last.op = "insert"
    /\ arp_last.before = "Free"
    /\ now > 0
    /\ lookup(cache, arp_last.protocol_address) = Some(arp_last.hardware_address)
    /\ \E j \in DOMAIN cache : j # arp_last.protocol_address

\* C7: update(hw, X) on a key with no slot in the table creates no entry, leaves every entry
\* unchanged, and lookup(X) is still None.
C7_UpdateAbsent ==
    [][ (arp_last'.op = "update" /\ arp_last'.protocol_address \notin DOMAIN cache) =>
            /\ arp_last'.res = "ok"
            /\ cache' = cache
            /\ lookup(cache', arp_last'.protocol_address) = None ]_vars

\* C7 witness: an update on an absent key while another key is resolved
C7_Witness ==
    /\ arp_last.op = "update"
    /\ arp_last.before = "absent"
    /\ arp_last.protocol_address \notin DOMAIN cache
    /\ \E j \in DOMAIN cache : cache[j].state = "Resolved"

\* C8: transmit with an index out of range, input with a tag no protocol is registered for and
\* isr with an irq that has no entry in the irq-to-device map return Ok, change no device, no
\* queue and no map, and raise no interrupt.
C8_LookupMisses ==
    [][ (\/ (last'.op = "transmit" /\ last'.index >= Len(net_devices))
         \/ (last'.op = "input" /\ ~Registered(protocols, last'.protocol_type))
         \/ (last'.op = "isr" /\ last'.irq \notin DOMAIN irq_device_map)) =>
            /\ last'.res = "ok"
            /\ last'.raised = <<>>
            /\ UNCHANGED <<current_index, net_devices, irq_device_map, irq_entries, protocols,
                           listeners>> ]_vars

\* C8 witness: an input with an unregistered tag while a protocol is registered and a frame is
\* queued
C8_Witness ==
    /\ last.op = "input"
    /\ protocols # <<>>
    /\ ~Registered(protocols, last.protocol_type)
    /\ TotalFrames > 0

\* C9: the interrupt handler of a device that is down returns an error and neither drains the
\* device's queue nor hands anything to input.
C9_IsrRequiresUp ==
    [][ (/\ last'.op = "isr"
         /\ last'.target # 0
         /\ ~is_up(net_devices[last'.target])
         /\ net_devices[last'.target].queue # <<>>) =>
            /\ last'.res # "ok"
            /\ net_devices'[last'.target].queue = net_devices[last'.target].queue
            /\ last'.handed = <<>>
            /\ protocols' = protocols ]_vars

\* C10: software_isr dispatches the payloads of each protocol queue in the order input
\* enqueued them.
C10_DispatchFifo ==
    [][ (last'.op = "software_isr") =>
            [i \in 1..Len(last'.dispatched) |-> last'.dispatched[i].data]
                = FifoOrder(protocols, 1) ]_vars

\* C11: after any sequence of registry operations, a second call of run included, at most
\* one listener thread is in its loop.
C11_OneListener == listeners <= 1

\* C12: when a listener takes a registered interrupt number n, the interrupt service routine
\* of every registered device whose bound irq is n is invoked, each device's once, and the
\* frames queued on each such device are taken from its queue.
C12_ListenerReachesAll ==
    [][ (last'.op = "signal") =>
            \A k \in 1..Len(net_devices) :
                (IrqOf(net_devices[k].net_device_type) = last'.irq) =>
                    /\ Cardinality({c \in 1..Len(last'.calls) :
                                       last'.calls[c].index = k - 1}) = 1
                    /\ net_devices'[k].queue = <<>> ]_vars

\* q is an initial part of r
IsPrefix(q, r) == Len(q) <= Len(r) /\ \A i \in 1..Len(q) : q[i] = r[i]

\* C13: a listener that receives the stop number leaves its loop; once the listeners have
\* left, no listener invokes an interrupt service routine whatever is raised afterwards: no
\* step is a listener's dispatch, and but for a direct call of isr every device queue keeps
\* the frames it holds.
C13_NoDispatchAfterStop ==
    [][ /\ (last'.op = "sighup") => (listeners' = 0)
        /\ (listeners = 0) =>
              /\ last'.op # "signal"
              /\ (last'.op # "isr") =>
                    /\ Len(net_devices') >= Len(net_devices)
                    /\ \A k \in 1..Len(net_devices) :
                          IsPrefix(net_devices[k].queue, net_devices'[k].queue) ]_vars

\* C13 witness: the listener was started and has left its loop, then a transmit on the up
\* Loopback device raised its interrupt, and the frame is in the device's queue
C13_Witness ==
    /\ listeners = 0
    /\ last.op = "transmit"
    /\ last.res = "ok"
    /\ last.raised = <<LOOPBACK_IRQ>>
    /\ is_up(net_devices[last.index + 1])
    /\ net_devices[last.index + 1].queue # <<>>

\* C14: a call of the interrupt subsystem's register with an irq outside
\* AVAILABLE_IRQ_MIN..AVAILABLE_IRQ_MAX fails and records no binding.
C14_RegisterInRange ==
    [][ (/\ last'.op = "irq_register"
         /\ (last'.irq < AVAILABLE_IRQ_MIN \/ last'.irq > AVAILABLE_IRQ_MAX)) =>
            /\ last'.res # "ok"
            /\ irq_entries' = irq_entries ]_vars

\* the positions of the devices that are up
UpDevices(devs) == {k \in 1..Len(devs) : is_up(devs[k])}

\* the least element of a non-empty set of numbers
Min(S) == CHOOSE x \in S : \A y \in S : x <= y

C16_SequentialIndex ==
    (InRegister = {}) =>
        /\ \A k \in 1..Len(net_devices) : net_devices[k].name = k - 1
        /\ \A irq \in DOMAIN irq_device_map :
              /\ irq_device_map[irq] < Len(net_devices)
              /\ IrqOf(net_devices[irq_device_map[irq] + 1].net_device_type) = irq

\* the header length in bytes that the low nibble of the first byte announces
AnnouncedLength(d) == (d[1] % 16) * 4

\* fewer than IHL * 4 bytes are available, or fewer than the 20 bytes of the fixed header
Truncated(d) == Len(d) < 20 \/ AnnouncedLength(d) < 20 \/ Len(d) < AnnouncedLength(d)

\* C17: on every truncated input (the empty one, one shorter than 20 bytes, one whose IHL
\* is below 5, one with fewer than IHL * 4 bytes) parse returns a parse error: it neither
\* panics nor succeeds.
C17_ParseTotal ==
    (ip_result # NotParsed /\ Truncated(ip_data)) => ip_result.res \notin {"panic", "ok"}

\* C18: on every input that holds at least IHL * 4 >= 20 bytes, parse fails with the
\* invalid-version error iff the high nibble of byte 0 is neither 4 nor 6; otherwise it fails
\* with the invalid-protocol error iff byte 9 is none of 1, 6, 17; otherwise it succeeds with
\* IHL = the low nibble of byte 0, options = bytes[20..IHL*4] and payload = bytes[IHL*4..];
\* the 20-byte header 45 00 00 14 .. gives version 4, IHL 5, TCP, 192.168.1.1 to
\* 192.168.1.2, total length 20 and an empty payload.
C18_ParseReference ==
    (ip_result # NotParsed /\ ~Truncated(ip_data)) =>
        LET d == ip_data
            n == AnnouncedLength(d)
        IN /\ IF d[1] \div 16 \notin {4, 6}
              THEN ip_result.res = "Invalid IP version"
              ELSE IF d[10] \notin {1, 6, 17}
              THEN ip_result.res = "Invalid IP protocol"
              ELSE /\ ip_result.res = "ok"
                   /\ ip_result.header.version = (IF d[1] \div 16 = 4 THEN "IPv4" ELSE "IPv6")
                   /\ ip_result.header.ihl = d[1] % 16
                   /\ ip_result.header.protocol =
                         (IF d[10] = 1 THEN "ICMP" ELSE IF d[10] = 6 THEN "TCP" ELSE "UDP")
                   /\ ip_result.header.options = [i \in 1..(n - 20) |-> d[20 + i]]
                   /\ ip_result.data = [i \in 1..(Len(d) - n) |-> d[n + i]]
           /\ (d = ExampleHeader) =>
                   /\ ip_result.res = "ok"
                   /\ ip_result.header.version = "IPv4"
                   /\ ip_result.header.ihl = 5
                   /\ ip_result.header.protocol = "TCP"
                   /\ ip_result.header.total_length = 20
                   /\ ip_result.header.source_ip_address = <<192 * 256 + 168, 1 * 256 + 1>>
                   /\ ip_result.header.destination_ip_address = <<192 * 256 + 168, 1 * 256 + 2>>
                   /\ ip_result.data = <<>>

\* C18 witness: parse succeeded on a header of more than 5 words followed by a payload
C18_Witness ==
    /\ ip_result # NotParsed
    /\ ip_result.res = "ok"
    /\ ip_result.header.ihl > 5
    /\ ip_result.header.options # <<>>
    /\ ip_result.data # <<>>

\* C19: a transmit that fails, on a down device or with a payload longer than the MTU, has
\* no effect: the device's flags and its frame queue, every other device and every protocol
\* queue are as before, and no interrupt is raised.
C19_FailedTransmit ==
    [][ (last'.op = "transmit" /\ last'.res # "ok") =>
            /\ net_devices' = net_devices
            /\ protocols' = protocols
            /\ last'.raised = <<>> ]_vars

\* C19 witness: a transmit failed on a down Loopback device that holds a frame in its queue
C19_Witness ==
    /\ last.op = "transmit"
    /\ last.res = "not opened"
    /\ last.index < Len(net_devices)
    /\ net_devices[last.index + 1].net_device_type = "Loopback"
    /\ net_devices[last.index + 1].queue # <<>>

\* the payloads handed to input
Payloads == {f.data : f \in Frames}

\* how many entries of the protocol queues registered under protocol_type hold payload x
Queued(protos, protocol_type, x) ==
    Cardinality({e \in (1..Len(protos)) \X (1..TotalFrames) :
                    /\ protos[e[1]].protocol_type = protocol_type
                    /\ e[2] <= Len(protos[e[1]].queue)
                    /\ protos[e[1]].queue[e[2]] = x})

\* how many dispatches of payload x under protocol_type the sequence holds
Dispatched(dispatched, protocol_type, x) ==
    Cardinality({i \in 1..Len(dispatched) :
                    dispatched[i].protocol_type = protocol_type /\ dispatched[i].data = x})

C21_DuplicateProtocol ==
    [][ /\ (last'.op = "register_protocol") =>
              protocols' = Append(protocols,
                                  [protocol_type |-> last'.protocol_type, queue |-> <<>>])
        /\ (last'.op = "input") =>
              IF Registered(protocols, last'.protocol_type)
              THEN /\ last'.raised = <<SIGUSR1>>
                   /\ Len(protocols') = Len(protocols)
                   /\ \E j \in 1..Len(protocols) :
                         /\ protocols[j].protocol_type = last'.protocol_type
                         /\ IsFirstFor(protocols, j)
                         /\ protocols'[j] =
                               [protocols[j] EXCEPT !.queue = Append(@, last'.data)]
                         /\ \A i \in (1..Len(protocols)) \ {j} : protocols'[i] = protocols[i]
              ELSE last'.raised = <<>> /\ protocols' = protocols
        /\ \A j \in 1..Len(protocols') :
              ~IsFirstFor(protocols', j) => protocols'[j].queue = <<>> ]_vars

\* C21 witness: a tag is registered twice, input has just appended a payload under that tag
\* to the first queue, and the second queue is empty
C21_Witness ==
    /\ last.op = "input"
    /\ Len(protocols) = 2
    /\ protocols[1].protocol_type = protocols[2].protocol_type
    /\ last.protocol_type = protocols[1].protocol_type
    /\ protocols[1].queue # <<>>
    /\ protocols[2].queue = <<>>

\* the up devices are a leading part of the registration order
UpIsPrefix(devs) == \E n \in 0..Len(devs) : UpDevices(devs) = 1..n

\* C23: under calls of register, run and shutdown that do not overlap, no down device comes
\* before an up device in the registration order; a run that fails changes no device, and
\* after a shutdown, successful or failing, every device is down.
C23_UpPrefix ==
    [][ /\ UpIsPrefix(net_devices')
        /\ (last'.op = "run" /\ last'.res # "ok") => net_devices' = net_devices
        /\ (last'.op = "shutdown") => UpDevices(net_devices') = {} ]_vars

\* C23 witness: a shutdown failed on a device that was registered after the run and closed
\* the devices before it: every device is down
C23_Witness ==
    /\ last.op = "shutdown"
    /\ last.res = "not opened"
    /\ Len(last.calls) > 1
    /\ UpDevices(net_devices) = {}

RECURSIVE Submitted(_, _)
\* the payloads of the first n calls that are successful transmits under a registered tag,
\* in the order of the calls
Submitted(h, n) ==
    IF n = 0
    THEN <<>>
    ELSE Submitted(h, n - 1) \o
            (IF /\ h[n].op = "transmit"
                /\ h[n].res = "ok"
                /\ Registered(protocols, h[n].protocol_type)
             THEN <<h[n].data>>
             ELSE <<>>)

RECURSIVE AllDispatched(_, _)
\* the payloads the software_isr calls among the first n calls dispatched, in order
AllDispatched(h, n) ==
    IF n = 0
    THEN <<>>
    ELSE AllDispatched(h, n - 1) \o
            [i \in 1..Len(h[n].dispatched) |-> h[n].dispatched[i].data]

\* no call of the handler or of software_isr comes before a transmit
TransmitsFirst(h) ==
    \A i, j \in 1..Len(h) : (i < j /\ h[j].op = "transmit") => h[i].op = "transmit"

\* C24: when the frames of one registered tag are transmitted on the up Loopback device
\* before its handler runs, and one handler run is followed by one software_isr, the
\* frames are dispatched in the order they were transmitted; more generally, as long as no
\* handler or software_isr run comes between the transmits, what has been dispatched is
\* nothing or all the frames in the order they were transmitted.
C24_SubmissionOrder ==
    LET n == Len(history) IN
    /\ (/\ n >= 2
        /\ history[n].op = "software_isr"
        /\ history[n - 1].op = "isr"
        /\ \A i \in 1..(n - 2) : history[i].op = "transmit") =>
            [i \in 1..Len(history[n].dispatched) |-> history[n].dispatched[i].data]
                = Submitted(history, n)
    /\ TransmitsFirst(history) =>
            AllDispatched(history, n) \in {<<>>, Submitted(history, n)}

\* C24 witness: two frames with different payloads were transmitted under the registered
\* tag, then the handler ran once and software_isr once, and both frames were dispatched
C24_Witness ==
    /\ Len(history) = 4
    /\ history[1].op = "transmit" /\ history[1].res = "ok"
    /\ history[2].op = "transmit" /\ history[2].res = "ok"
    /\ history[1].data # history[2].data
    /\ history[3].op = "isr"
    /\ history[4].op = "software_isr"
    /\ Len(history[4].dispatched) = 2

\* the threads inside an operation: a caller in a call, a listener handling a signal
Busy == {t \in LockThreads : threads[t].pc \notin {"idle", "unspawned", "listening"}}
Held(t) == {h \in locks : h.thread = t}
NoLock == [lock |-> <<"none", 0>>, mode |-> "r"]
Want(l, mode) == [lock |-> l, mode |-> mode]
\* the lock the next step of thread t takes
Wanted(t) ==
    LET th == threads[t]
        loopback == net_devices[th.target].net_device_type = "Loopback"
    IN CASE th.pc = "reg_irq" -> Want(IrqEntriesLock, "w")
         [] th.pc = "isr_map" -> Want(IrqDeviceMapLock, "r")
         [] th.pc = "reg_map" -> Want(IrqDeviceMapLock, "w")
         [] th.pc \in {"tx_devices", "isr_devices", "run_devices", "shut_devices"} ->
                Want(NetDevicesLock, "r")
         [] th.pc = "reg_push" -> Want(NetDevicesLock, "w")
         [] th.pc \in {"tx_device", "isr_device"} -> Want(DeviceLock(th.target), "w")
         [] th.pc \in {"run_open", "shut_close"} /\ th.cursor <= Len(net_devices) ->
                Want(DeviceLock(th.cursor), "w")
         [] th.pc \in {"tx_body", "isr_queue"} /\ loopback -> Want(QueueLock(th.target), "w")
         [] th.pc \in {"isr_input", "si_protocols"} -> Want(ProtocolsLock, "r")
         [] th.pc = "rp_push" -> Want(ProtocolsLock, "w")
         [] th.pc = "isr_push" /\ FirstProtocol(protocols, th.entry.net_protocol_type) # 0 ->
                Want(ProtocolQueueLock(FirstProtocol(protocols, th.entry.net_protocol_type)),
                     "w")
         [] th.pc = "si_queue" /\ th.cursor <= Len(protocols) ->
                Want(ProtocolQueueLock(th.cursor), "w")
         [] OTHER -> NoLock

\* the order of the locks: the entries of the signals, the map of the signals, the device
\* list, a device, its queue, the protocol list, a protocol's queue
LockKinds ==
    <<"irq_entries", "irq_device_map", "net_devices", "device", "queue", "protocols",
      "protocol_queue">>
Rank(l) == CHOOSE r \in 0..Len(LockKinds) : IF r = 0 THEN l[1] = "none" ELSE LockKinds[r] = l[1]

\* a thread takes a lock only after the locks it holds
LockOrder ==
    \A t \in LockThreads :
        Wanted(t) # NoLock => \A h \in Held(t) : Rank(h.lock) < Rank(Wanted(t).lock)

\* the lock is granted by RwLock and Mutex as the steps have it: a reader waits for a writer
\* that holds the lock, a writer for every holder
Granted(t) ==
    \/ Wanted(t) = NoLock
    \/ Wanted(t).mode = "r" /\ CanRead(Wanted(t).lock)
    \/ Wanted(t).mode = "w" /\ CanWrite(Wanted(t).lock)
\* the lock is granted by an RwLock that prefers writers: a reader also waits for a writer
\* that waits
GrantedToReaderLast(t) ==
    /\ Granted(t)
    /\ Wanted(t).mode = "r" /\ Wanted(t) # NoLock =>
          \A u \in Busy : Wanted(u) # Want(Wanted(t).lock, "w")

\* C22: with the caller threads in transmit, register, register_protocol, run, shutdown and
\* software_isr and the listeners in isr and input, some thread inside an operation can always
\* take its next step, whether the RwLocks prefer readers or writers; a thread takes its locks
\* in the order device list, device, device queue, protocol list, protocol queue; and every
\* operation that was started returns.
C22_NoDeadlock ==
    /\ [](/\ LockOrder
          /\ \A t \in Busy : Granted(t) <=> ENABLED LockStep(t)
          /\ Busy # {} => \E t \in Busy : GrantedToReaderLast(t))
    /\ <>[](Busy = {})

\* C22 witness: a listener is in input for a frame it popped, holding the read guards of
\* irq_entries, of the map and of the device list, the device's write guard, its queue's
\* guard and the read guard of the protocol list, while register_protocol waits for the
\* protocol list
C22_Witness ==
    \E l \in LockListeners, t \in Threads :
        /\ threads[l].pc = "isr_push"
        /\ {h.lock : h \in Held(l)} =
              {IrqEntriesLock, IrqDeviceMapLock, NetDevicesLock, DeviceLock(threads[l].target),
               QueueLock(threads[l].target), ProtocolsLock}
        /\ threads[t].pc = "rp_push" /\ ~Granted(t)

====
